---- MODULE Spec2Model ----
(***************************************************************************)
(* Model of the Telnet terminal multiplexer library (src/src/sim_tmxr.cpp).*)
(*                                                                         *)
(* A multiplexer descriptor (TMXR) owns `lines` line descriptors (TMLN).   *)
(* Every library routine is an operator on line records that computes what *)
(* the C routine computes; every action below is one call of a routine.    *)
(* Bytes are the integers 0..255 (the C code compares signed chars against *)
(* negative TN_ constants; the model uses the unsigned value of the byte). *)
(* Lines and buffer positions are numbered from 0, as in the C code.       *)
(***************************************************************************)
EXTENDS Integers, Sequences, FiniteSets, TLC

(* ------------------------------------------------------------------ *)
(* Bounds of the model.                                                *)
(* ------------------------------------------------------------------ *)

\* Size of the receive buffer and of the unbuffered transmit buffer.  The
\* program uses a larger value; the model scales it down together with
\* TMXR_GUARD and the greeting so that wrap-around and near-full happen.
TMXR_MAXBUF == 4

\* Slack kept free in the buffers (near-full threshold).
TMXR_GUARD == 1

\* Number of characters of the connection greeting kept by the model.
GreetLen == 2

\* Number of connections made to a single-line multiplexer in one behaviour.
MaxConn == 1

\* Number of sockets the listener may accept in one behaviour.
MaxSock == 4

\* Number of tmxr_putc_ln calls made by the device in one behaviour.
MaxPut == 2

\* Number of protocol items the peer sends in one behaviour.
MaxTok == 3

(* ------------------------------------------------------------------ *)
(* Telnet protocol constants.                                          *)
(* ------------------------------------------------------------------ *)

TN_IAC == 255
TN_DONT == 254
TN_DO == 253
TN_WONT == 252
TN_WILL == 251
TN_SB == 250
TN_GA == 249
TN_EL == 248
TN_EC == 247
TN_AYT == 246
TN_AO == 245
TN_IP == 244
TN_BRK == 243
TN_DATAMK == 242
TN_NOP == 241
TN_SE == 240

TN_BIN == 0
TN_ECHO == 1
TN_SGA == 3
TN_LINE == 34
TN_CR == 13
TN_LF == 10
TN_NUL == 0

TNS_NORM == 0
TNS_IAC == 1
TNS_WILL == 2
TNS_WONT == 3
TNS_SKIP == 4
TNS_CRPAD == 5
TNS_DO == 6
TNS_DONT == 7

\* Result of a socket write or read that failed or would block.
SOCKET_ERROR == -1

\* Content of memory the program has not written (heap returned by realloc,
\* storage next to an array).  It is no byte value: a formula that expects a
\* particular byte fails wherever this content is observed.
Indet == 0 - 1

\* A null pointer (the line order array may be absent).
NULL == <<>>

\* The mantra of a build with VM_VAX defined.  (A variant of mantra, used to
\* show that C20 depends on the bytes of the default variant.)
mantraVAX ==
    << TN_IAC, TN_DONT, TN_LINE,
       TN_IAC, TN_WILL, TN_SGA,
       TN_IAC, TN_DO, TN_SGA,
       TN_IAC, TN_WILL, TN_ECHO,
       TN_IAC, TN_WILL, TN_BIN,
       TN_IAC, TN_DO, TN_BIN >>

\* The mantra of the default build.
mantra ==
    << TN_IAC, TN_WILL, TN_LINE,
       TN_IAC, TN_WILL, TN_SGA,
       TN_IAC, TN_WILL, TN_ECHO,
       TN_IAC, TN_WILL, TN_BIN,
       TN_IAC, TN_DO, TN_BIN >>

\* "\n\r\nConnected to the ... simulator ...\r\n\n", cut to GreetLen characters.
\* The greeting holds no IAC and none of the bytes the model's device sends.
msgbuf == [k \in 1..GreetLen |-> IF k % 2 = 1 THEN TN_LF ELSE TN_CR]

\* "All connections busy\r\n"
BusyMsg ==
    << 65, 108, 108, 32, 99, 111, 110, 110, 101, 99, 116, 105, 111, 110, 115,
       32, 98, 117, 115, 121, 13, 10 >>

(* ------------------------------------------------------------------ *)
(* Helpers.                                                            *)
(* ------------------------------------------------------------------ *)

Min(a, b) == IF a < b THEN a ELSE b

\* The C remainder a % b for b > 0 (truncation toward zero).
CMod(a, b) == IF a >= 0 THEN a % b ELSE 0 - ((0 - a) % b)

\* cnt bytes of array arr starting at position from; a position outside the
\* array reads memory the program does not own.
Slice(arr, from, cnt) ==
    [k \in 1..cnt |-> IF (from + k - 1) \in DOMAIN arr THEN arr[from + k - 1] ELSE Indet]

\* realloc: the old content is kept up to the new size, the rest is unwritten.
Realloc(arr, sz) == [p \in 0..(sz - 1) |-> IF p \in DOMAIN arr THEN arr[p] ELSE Indet]

(* ------------------------------------------------------------------ *)
(* The line descriptor (TMLN) as the multiplexer's owner declares it:  *)
(* static storage, so every field starts as zero.  rxb and rbr have    *)
(* TMXR_MAXBUF elements; position TMXR_MAXBUF is the storage that      *)
(* follows the array, which tmxr_rmvrc reads when the buffer is full.  *)
(* ------------------------------------------------------------------ *)

NewLine ==
    [ conn  |-> 0,                                  \* socket, 0 = none
      tsta  |-> TNS_NORM,                           \* Telnet state
      rcve  |-> 1,                                  \* receive enabled (set by the device)
      xmte  |-> 1,                                  \* transmit enabled
      dstb  |-> 0,                                  \* 1 = pad after CR is removed
      rxbpr |-> 0, rxbpi |-> 0, rxcnt |-> 0,
      txbpr |-> 0, txbpi |-> 0, txcnt |-> 0, txdrp |-> 0,
      txbsz |-> 0, txbfd |-> 0,
      txlog |-> FALSE,                              \* line log attached
      txlogf |-> <<>>,                              \* what has been written to line logs
      rxb   |-> [p \in 0..TMXR_MAXBUF |-> IF p < TMXR_MAXBUF THEN 0 ELSE Indet],
      rbr   |-> [p \in 0..TMXR_MAXBUF |-> IF p < TMXR_MAXBUF THEN 0 ELSE Indet],
      txb   |-> NULL,
      oob   |-> FALSE ]                             \* a store went outside txb

(* ------------------------------------------------------------------ *)
(* Transmit side.                                                      *)
(* ------------------------------------------------------------------ *)

\* tmxr_tqln: count of buffered characters for line.
tmxr_tqln(lp) == lp.txbpi - lp.txbpr + (IF lp.txbpi < lp.txbpr THEN lp.txbsz ELSE 0)

TXBUF_AVAIL(lp) == lp.txbsz - tmxr_tqln(lp)

\* A store that never drops the oldest character.  (A variant of TXBUF_CHAR,
\* used to show that C12 depends on the eviction.)
TXBUF_CHAR_keep(lp, c) ==
    [lp EXCEPT !.txb = IF lp.txbpi \in DOMAIN @ THEN [@ EXCEPT ![lp.txbpi] = c] ELSE @,
               !.txbpi = CMod(lp.txbpi + 1, lp.txbsz)]

\* A store that drops the oldest character without counting it.  (A variant
\* of TXBUF_CHAR, used to show that C15 depends on the drop count.)
TXBUF_CHAR_nocount(lp, c) ==
    LET l1 == [lp EXCEPT !.txb = IF lp.txbpi \in DOMAIN @ THEN [@ EXCEPT ![lp.txbpi] = c] ELSE @,
                         !.txbpi = CMod(lp.txbpi + 1, lp.txbsz)]
    IN  IF l1.txbpi = l1.txbpr
        THEN [l1 EXCEPT !.txbpr = CMod(1 + l1.txbpr, l1.txbsz)]
        ELSE l1

\* TXBUF_CHAR: store c at the insert pointer, advance it, and when it meets
\* the remove pointer drop the oldest character.
TXBUF_CHAR(lp, c) ==
    LET inside == lp.txbpi \in DOMAIN lp.txb
        l1 == [lp EXCEPT !.txb = IF inside THEN [@ EXCEPT ![lp.txbpi] = c] ELSE @,
                         !.oob = @ \/ ~inside,
                         !.txbpi = CMod(lp.txbpi + 1, lp.txbsz)]
    IN  IF l1.txbpi = l1.txbpr
        THEN [l1 EXCEPT !.txbpr = CMod(1 + l1.txbpr, l1.txbsz), !.txdrp = @ + 1]
        ELSE l1

\* A log that takes a character only while the line is connected.  (A
\* variant of LogChar, used to show that C17 depends on the unconditional log.)
LogCharConnected(lp, chr) ==
    IF lp.txlog /\ (lp.conn # 0) THEN [lp EXCEPT !.txlogf = Append(@, chr)] ELSE lp

\* The first statement of tmxr_putc_ln: "log if available".
LogChar(lp, chr) ==
    IF lp.txlog THEN [lp EXCEPT !.txlogf = Append(@, chr)] ELSE lp

\* A tmxr_putc_ln that reports a character as lost on an unconnected line
\* even when it was logged.  (A variant of tmxr_putc_ln, used to show that
\* C14 depends on the log test.)
tmxr_putc_ln_lost(lp0, chr) ==
    LET lp == LogChar(lp0, chr)
    IN  IF (lp.conn = 0) /\ (lp.txbfd = 0)
        THEN [lp |-> [lp EXCEPT !.txdrp = @ + 1], st |-> "LOST"]
        ELSE IF (lp.txbfd # 0) \/ (TXBUF_AVAIL(lp) > 1)
             THEN LET l1 == IF chr = TN_IAC THEN TXBUF_CHAR(lp, TN_IAC) ELSE lp
                      l2 == TXBUF_CHAR(l1, chr)
                      l3 == IF (l2.txbfd = 0) /\ (TXBUF_AVAIL(l2) <= TMXR_GUARD)
                            THEN [l2 EXCEPT !.xmte = 0]
                            ELSE l2
                  IN  [lp |-> l3, st |-> "OK"]
             ELSE [lp |-> [lp EXCEPT !.txdrp = @ + 1, !.xmte = 0], st |-> "STALL"]

\* A tmxr_putc_ln that stores the character it stalls on.  (A variant of
\* tmxr_putc_ln, used to show that C35 depends on the stall leaving the
\* ring alone.)
tmxr_putc_ln_stallstores(lp0, chr) ==
    LET lp == LogChar(lp0, chr)
    IN  IF (lp.conn = 0) /\ (lp.txbfd = 0)
        THEN IF lp.txlog
             THEN [lp |-> lp, st |-> "OK"]
             ELSE [lp |-> [lp EXCEPT !.txdrp = @ + 1], st |-> "LOST"]
        ELSE IF (lp.txbfd # 0) \/ (TXBUF_AVAIL(lp) > 1)
             THEN LET l1 == IF chr = TN_IAC THEN TXBUF_CHAR(lp, TN_IAC) ELSE lp
                      l2 == TXBUF_CHAR(l1, chr)
                      l3 == IF (l2.txbfd = 0) /\ (TXBUF_AVAIL(l2) <= TMXR_GUARD)
                            THEN [l2 EXCEPT !.xmte = 0]
                            ELSE l2
                  IN  [lp |-> l3, st |-> "OK"]
             ELSE [lp |-> [TXBUF_CHAR_nocount(lp, chr) EXCEPT !.txdrp = @ + 1, !.xmte = 0],
                   st |-> "STALL"]

\* tmxr_putc_ln: store character in line buffer.  The result is the line
\* and the status: "OK", "LOST" (no connection) or "STALL".
tmxr_putc_ln(lp0, chr) ==
    LET lp == LogChar(lp0, chr)
    IN
    IF (lp.conn = 0) /\ (lp.txbfd = 0)
    THEN IF lp.txlog
         THEN [lp |-> lp, st |-> "OK"]
         ELSE [lp |-> [lp EXCEPT !.txdrp = @ + 1], st |-> "LOST"]
    ELSE IF (lp.txbfd # 0) \/ (TXBUF_AVAIL(lp) > 1)
         THEN LET l1 == IF chr = TN_IAC THEN TXBUF_CHAR(lp, TN_IAC) ELSE lp
                  l2 == TXBUF_CHAR(l1, chr)
                  l3 == IF (l2.txbfd = 0) /\ (TXBUF_AVAIL(l2) <= TMXR_GUARD)
                        THEN [l2 EXCEPT !.xmte = 0]
                        ELSE l2
              IN  [lp |-> l3, st |-> "OK"]
         ELSE [lp |-> [lp EXCEPT !.txdrp = @ + 1, !.xmte = 0], st |-> "STALL"]

\* tmxr_linemsg: put every character of msg, ignoring the status.
RECURSIVE tmxr_linemsg(_, _)
tmxr_linemsg(lp, msg) ==
    IF msg = <<>> THEN lp
    ELSE tmxr_linemsg(tmxr_putc_ln(lp, Head(msg)).lp, Tail(msg))

\* sim_write_sock of n bytes when the socket takes at most r of them
\* (r = SOCKET_ERROR: the write fails or would block).  A write on socket 0
\* (no connection) fails.
sim_write_sock(conn, n, r) ==
    IF conn = 0 \/ r = SOCKET_ERROR THEN SOCKET_ERROR ELSE Min(r, n)

\* An update that leaves the remove pointer in place after a write of a
\* single byte.  (A variant of SentUpdate, used to show that C5 depends on
\* the pointer arithmetic of tmxr_send_buffered_data.)
SentUpdateStuck(lp, sbytes) ==
    IF (sbytes = SOCKET_ERROR) \/ (sbytes = 1) THEN lp
    ELSE [lp EXCEPT !.txbpr = IF lp.txbpr + sbytes >= lp.txbsz THEN 0 ELSE lp.txbpr + sbytes,
                    !.txcnt = @ + sbytes]

\* The update of the line after a write of sbytes from the remove pointer.
SentUpdate(lp, sbytes) ==
    IF sbytes = SOCKET_ERROR THEN lp
    ELSE [lp EXCEPT !.txbpr = IF lp.txbpr + sbytes >= lp.txbsz THEN 0 ELSE lp.txbpr + sbytes,
                    !.txcnt = @ + sbytes]

\* tmxr_send_buffered_data: up to two writes (to the end of the buffer, then
\* the wrapped rest).  r1, r2 are what the socket takes on each write.  The
\* result is the line, the bytes put on the socket and the count still buffered.
tmxr_send_buffered_data(lp, r1, r2) ==
    LET nbytes == tmxr_tqln(lp)
    IN  IF nbytes = 0 THEN [lp |-> lp, out |-> <<>>, nbytes |-> 0]
        ELSE LET n1  == IF lp.txbpr < lp.txbpi THEN nbytes ELSE lp.txbsz - lp.txbpr
                 s1  == sim_write_sock(lp.conn, n1, r1)
                 o1  == IF s1 = SOCKET_ERROR THEN <<>> ELSE Slice(lp.txb, lp.txbpr, s1)
                 l1  == SentUpdate(lp, s1)
                 nb1 == IF s1 = SOCKET_ERROR THEN nbytes ELSE nbytes - s1
             IN  IF (nb1 # 0) /\ (l1.txbpr = 0)
                 THEN LET s2  == sim_write_sock(l1.conn, nb1, r2)
                          o2  == IF s2 = SOCKET_ERROR THEN <<>> ELSE Slice(l1.txb, 0, s2)
                          l2  == SentUpdate(l1, s2)
                          nb2 == IF s2 = SOCKET_ERROR THEN nb1 ELSE nb1 - s2
                      IN  [lp |-> l2, out |-> o1 \o o2, nbytes |-> nb2]
                 ELSE [lp |-> l1, out |-> o1, nbytes |-> nb1]

\* The writes tmxr_send_buffered_data makes: the first when a connected line
\* has data, the second when data is left and the remove pointer is at 0.
FirstWrite(lp) == (lp.conn # 0) /\ (tmxr_tqln(lp) # 0)

SecondWrite(lp, r1) ==
    /\ FirstWrite(lp)
    /\ LET n1 == IF lp.txbpr < lp.txbpi THEN tmxr_tqln(lp) ELSE lp.txbsz - lp.txbpr
           s1 == sim_write_sock(lp.conn, n1, r1)
       IN  IF s1 = SOCKET_ERROR THEN lp.txbpr = 0
           ELSE (tmxr_tqln(lp) - s1 # 0) /\ (SentUpdate(lp, s1).txbpr = 0)

\* A poll that sends but never enables the line.  (A variant of PollTxLine,
\* used to show that C19 depends on the enable.)
PollTxLineNoEnable(lp, r1, r2) ==
    IF lp.conn = 0 THEN [lp |-> lp, out |-> <<>>]
    ELSE LET s == tmxr_send_buffered_data(lp, r1, r2)
         IN  [lp |-> s.lp, out |-> s.out]

\* A poll that enables the line whatever is left in the buffer.  (A variant
\* of PollTxLine, used to show that C38 depends on the test for an empty
\* buffer.)
PollTxLineAlwaysEnable(lp, r1, r2) ==
    IF lp.conn = 0 THEN [lp |-> lp, out |-> <<>>]
    ELSE LET s == tmxr_send_buffered_data(lp, r1, r2)
         IN  [lp |-> [s.lp EXCEPT !.xmte = 1], out |-> s.out]

\* The body of tmxr_poll_tx for one line: send, and enable the line when the
\* buffer has emptied.
PollTxLine(lp, r1, r2) ==
    IF lp.conn = 0 THEN [lp |-> lp, out |-> <<>>]
    ELSE LET s == tmxr_send_buffered_data(lp, r1, r2)
         IN  [lp  |-> IF s.nbytes = 0 THEN [s.lp EXCEPT !.xmte = 1] ELSE s.lp,
              out |-> s.out]

\* A reset that leaves the buffer pointers alone.  (A variant of
\* tmxr_reset_ln, used to show that C13 depends on the reset of the pointers.)
tmxr_reset_ln_keep(lp, r1, r2) ==
    LET s == tmxr_send_buffered_data(lp, r1, r2)
    IN  [lp  |-> [s.lp EXCEPT !.conn = 0, !.tsta = 0, !.xmte = 1, !.dstb = 0],
         out |-> s.out]

\* A reset that also clears the drop counter.  (A variant of tmxr_reset_ln,
\* used to show that C10 depends on the reset leaving the counter alone.)
tmxr_reset_ln_clear(lp, r1, r2) ==
    LET s == tmxr_send_buffered_data(lp, r1, r2)
    IN  [lp  |-> [s.lp EXCEPT !.conn = 0, !.tsta = 0, !.rxbpr = 0, !.rxbpi = 0,
                              !.txbpr = 0, !.txbpi = 0, !.xmte = 1, !.dstb = 0,
                              !.txdrp = 0],
         out |-> s.out]

\* tmxr_reset_ln: send what is buffered, close the socket, reset the state.
tmxr_reset_ln(lp, r1, r2) ==
    LET s  == tmxr_send_buffered_data(lp, r1, r2)
        l1 == [s.lp EXCEPT !.conn = 0, !.tsta = 0, !.rxbpr = 0, !.rxbpi = 0]
        l2 == IF l1.txbfd = 0 THEN [l1 EXCEPT !.txbpr = 0, !.txbpi = 0] ELSE l1
    IN  [lp |-> [l2 EXCEPT !.xmte = 1, !.dstb = 0], out |-> s.out]

\* "\r\nDisconnected from the <sim_name> simulator\r\n\n", cut to its first
\* characters "\r\nD".
ByeMsg == << TN_CR, TN_LF, 68 >>

\* A close that writes the message and leaves the line connected.  (A variant
\* of tmxr_close_master_ln, used to show that C22 depends on the reset.)
tmxr_close_master_ln_msgonly(lp, r1, r2) ==
    [lp |-> IF lp.conn # 0 THEN tmxr_linemsg(lp, ByeMsg) ELSE lp, out |-> <<>>]

\* The body of the loop of tmxr_close_master for one line: a connected line
\* gets the message and is reset.
tmxr_close_master_ln(lp, r1, r2) ==
    IF lp.conn # 0
    THEN tmxr_reset_ln(tmxr_linemsg(lp, ByeMsg), r1, r2)
    ELSE [lp |-> lp, out |-> <<>>]

(* ------------------------------------------------------------------ *)
(* Receive side.                                                       *)
(* ------------------------------------------------------------------ *)

\* A removal that shortens the buffer without moving the characters down.
\* (A variant of tmxr_rmvrc, used to show that C6 depends on the removal.)
tmxr_rmvrc_tail(lp, p) == [lp EXCEPT !.rxbpi = lp.rxbpi - 1]

\* tmxr_rmvrc: remove character p (and matching status) from the input
\* buffer by moving the following characters down, the one at rxbpi included.
tmxr_rmvrc(lp, p) ==
    [lp EXCEPT !.rxb = [q \in DOMAIN lp.rxb |->
                           IF q >= p /\ q < lp.rxbpi THEN lp.rxb[q + 1] ELSE lp.rxb[q]],
               !.rbr = [q \in DOMAIN lp.rbr |->
                           IF q >= p /\ q < lp.rxbpi THEN lp.rbr[q + 1] ELSE lp.rbr[q]],
               !.rxbpi = lp.rxbpi - 1]

\* One turn of the loop with a state CRPAD that steps over the character it
\* keeps.  (A variant of FilterStep, used to show that C31 depends on the
\* character after a CR being examined again in state NORM.)
FilterStepPadKeeps(lp, j) ==
    LET tmp == lp.rxb[j]
    IN  CASE lp.tsta = TNS_NORM ->
                IF tmp = TN_IAC
                THEN [lp |-> tmxr_rmvrc([lp EXCEPT !.tsta = TNS_IAC], j), j |-> j]
                ELSE [lp |-> IF (tmp = TN_CR) /\ (lp.dstb # 0)
                             THEN [lp EXCEPT !.tsta = TNS_CRPAD] ELSE lp,
                      j  |-> j + 1]
          [] lp.tsta = TNS_IAC ->
                IF tmp = TN_IAC
                THEN [lp |-> [lp EXCEPT !.tsta = TNS_NORM], j |-> j + 1]
                ELSE IF tmp = TN_BRK
                THEN [lp |-> [lp EXCEPT !.tsta = TNS_NORM,
                                        !.rxb = [@ EXCEPT ![j] = 0],
                                        !.rbr = [@ EXCEPT ![j] = 1]],
                      j  |-> j + 1]
                ELSE LET nsta == IF tmp = TN_WILL THEN TNS_WILL
                                 ELSE IF tmp = TN_WONT THEN TNS_WONT
                                 ELSE IF tmp = TN_DO THEN TNS_DO
                                 ELSE IF tmp = TN_DONT THEN TNS_DONT
                                 ELSE IF tmp \in {TN_GA, TN_EL, TN_EC, TN_AYT, TN_AO, TN_IP,
                                                  TN_NOP, TN_SB, TN_DATAMK, TN_SE}
                                 THEN TNS_NORM
                                 ELSE lp.tsta
                     IN  [lp |-> tmxr_rmvrc([lp EXCEPT !.tsta = nsta], j), j |-> j]
          [] lp.tsta \in {TNS_WILL, TNS_WONT} ->
                LET l1 == IF tmp = TN_BIN
                          THEN [lp EXCEPT !.dstb = IF lp.tsta = TNS_WILL THEN 0 ELSE 1]
                          ELSE lp
                IN  [lp |-> [tmxr_rmvrc(l1, j) EXCEPT !.tsta = TNS_NORM], j |-> j]
          [] lp.tsta = TNS_CRPAD ->
                LET l1 == [lp EXCEPT !.tsta = TNS_NORM]
                IN  IF (tmp = TN_LF) \/ (tmp = TN_NUL)
                    THEN [lp |-> tmxr_rmvrc(l1, j), j |-> j]
                    ELSE [lp |-> l1, j |-> j + 1]
          [] OTHER ->
                [lp |-> [tmxr_rmvrc(lp, j) EXCEPT !.tsta = TNS_NORM], j |-> j]

\* One turn of the loop of tmxr_poll_rx that examines the character at j:
\* the result is the line and the next j.
FilterStep(lp, j) ==
    LET tmp == lp.rxb[j]
    IN  CASE lp.tsta = TNS_NORM ->
                IF tmp = TN_IAC
                THEN [lp |-> tmxr_rmvrc([lp EXCEPT !.tsta = TNS_IAC], j), j |-> j]
                ELSE [lp |-> IF (tmp = TN_CR) /\ (lp.dstb # 0)
                             THEN [lp EXCEPT !.tsta = TNS_CRPAD] ELSE lp,
                      j  |-> j + 1]
          [] lp.tsta = TNS_IAC ->
                IF tmp = TN_IAC
                THEN [lp |-> [lp EXCEPT !.tsta = TNS_NORM], j |-> j + 1]
                ELSE IF tmp = TN_BRK
                THEN [lp |-> [lp EXCEPT !.tsta = TNS_NORM,
                                        !.rxb = [@ EXCEPT ![j] = 0],
                                        !.rbr = [@ EXCEPT ![j] = 1]],
                      j  |-> j + 1]
                ELSE LET nsta == CASE tmp = TN_WILL -> TNS_WILL
                                   [] tmp = TN_WONT -> TNS_WONT
                                   [] tmp = TN_DO   -> TNS_DO
                                   [] tmp = TN_DONT -> TNS_DONT
                                   [] tmp \in {TN_GA, TN_EL, TN_EC, TN_AYT,
                                               TN_AO, TN_IP, TN_NOP} -> TNS_NORM
                                   [] tmp \in {TN_SB, TN_DATAMK, TN_SE} -> TNS_NORM
                                   [] OTHER -> lp.tsta
                     IN  [lp |-> tmxr_rmvrc([lp EXCEPT !.tsta = nsta], j), j |-> j]
          [] lp.tsta \in {TNS_WILL, TNS_WONT} ->
                LET l1 == IF tmp = TN_BIN
                          THEN [lp EXCEPT !.dstb = IF lp.tsta = TNS_WILL THEN 0 ELSE 1]
                          ELSE lp
                IN  [lp |-> [tmxr_rmvrc(l1, j) EXCEPT !.tsta = TNS_NORM], j |-> j]
          [] lp.tsta = TNS_CRPAD ->
                LET l1 == [lp EXCEPT !.tsta = TNS_NORM]
                IN  IF (tmp = TN_LF) \/ (tmp = TN_NUL)
                    THEN [lp |-> tmxr_rmvrc(l1, j), j |-> j]
                    ELSE [lp |-> l1, j |-> j]
          [] OTHER ->
                [lp |-> [tmxr_rmvrc(lp, j) EXCEPT !.tsta = TNS_NORM], j |-> j]

\* A filter that examines the first new character only.  (A variant of
\* FilterLoop, used to show that C8 depends on the loop.)
FilterLoopOnce(lp, j) ==
    IF j < lp.rxbpi THEN FilterStep(lp, j).lp ELSE lp

\* The loop "for (; j < lp->rxbpi; )" of tmxr_poll_rx.
RECURSIVE FilterLoop(_, _)
FilterLoop(lp, j) ==
    IF j < lp.rxbpi
    THEN LET s == FilterStep(lp, j) IN FilterLoop(s.lp, s.j)
    ELSE lp

\* tmxr_poll_rx reads when the buffer is empty or when a Telnet sequence is
\* incomplete.
Reads(lp) == (lp.rxbpi = 0) \/ (lp.tsta # 0)

\* The number of bytes tmxr_poll_rx asks the socket for.
ReadWant(lp) ==
    IF lp.rxbpi = 0 THEN TMXR_MAXBUF - TMXR_GUARD
    ELSE IF lp.tsta # 0 THEN TMXR_MAXBUF - lp.rxbpi
    ELSE 0

\* A poll that starts every read in state NORM.  (A variant of PollRxLine,
\* used to show that C36 depends on the Telnet state being kept from one
\* read to the next.)
PollRxLineFresh(lp, data, err, r1, r2) ==
    IF (lp.conn = 0) \/ (lp.rcve = 0) THEN [lp |-> lp, out |-> <<>>, closed |-> FALSE]
    ELSE IF err
    THEN LET s == tmxr_reset_ln(lp, r1, r2)
         IN  [lp |-> s.lp, out |-> s.out, closed |-> TRUE]
    ELSE IF Len(data) > 0
    THEN LET j  == lp.rxbpi
             nb == Len(data)
             l1 == [lp EXCEPT
                      !.rxb = [q \in DOMAIN lp.rxb |->
                                  IF q >= j /\ q < j + nb THEN data[q - j + 1] ELSE lp.rxb[q]],
                      !.rbr = [q \in DOMAIN lp.rbr |->
                                  IF q >= j /\ q < j + nb THEN 0 ELSE lp.rbr[q]],
                      !.rxbpi = lp.rxbpi + nb,
                      !.rxcnt = lp.rxcnt + nb,
                      !.tsta = TNS_NORM]
         IN  [lp |-> FilterLoop(l1, j), out |-> <<>>, closed |-> FALSE]
    ELSE [lp |-> lp, out |-> <<>>, closed |-> FALSE]

\* A poll that does not clear the break flags of the positions it reads
\* into.  (A variant of PollRxLine, used to show that C37 depends on the
\* memset of rbr.)
PollRxLineNoClear(lp, data, err, r1, r2) ==
    IF (lp.conn = 0) \/ (lp.rcve = 0) THEN [lp |-> lp, out |-> <<>>, closed |-> FALSE]
    ELSE IF err
    THEN LET s == tmxr_reset_ln(lp, r1, r2)
         IN  [lp |-> s.lp, out |-> s.out, closed |-> TRUE]
    ELSE IF Len(data) > 0
    THEN LET j  == lp.rxbpi
             nb == Len(data)
             l1 == [lp EXCEPT
                      !.rxb = [q \in DOMAIN lp.rxb |->
                                  IF q >= j /\ q < j + nb THEN data[q - j + 1] ELSE lp.rxb[q]],
                      !.rxbpi = lp.rxbpi + nb,
                      !.rxcnt = lp.rxcnt + nb]
         IN  [lp |-> FilterLoop(l1, j), out |-> <<>>, closed |-> FALSE]
    ELSE [lp |-> lp, out |-> <<>>, closed |-> FALSE]

\* The body of the first loop of tmxr_poll_rx for one line.  data are the
\* bytes the read returned; err says that the read failed (nbytes < 0).
PollRxLine(lp, data, err, r1, r2) ==
    IF (lp.conn = 0) \/ (lp.rcve = 0) THEN [lp |-> lp, out |-> <<>>, closed |-> FALSE]
    ELSE IF err
    THEN LET s == tmxr_reset_ln(lp, r1, r2)
         IN  [lp |-> s.lp, out |-> s.out, closed |-> TRUE]
    ELSE IF Len(data) > 0
    THEN LET j  == lp.rxbpi
             nb == Len(data)
             l1 == [lp EXCEPT
                      !.rxb = [q \in DOMAIN lp.rxb |->
                                  IF q >= j /\ q < j + nb THEN data[q - j + 1] ELSE lp.rxb[q]],
                      !.rbr = [q \in DOMAIN lp.rbr |->
                                  IF q >= j /\ q < j + nb THEN 0 ELSE lp.rbr[q]],
                      !.rxbpi = lp.rxbpi + nb,
                      !.rxcnt = lp.rxcnt + nb]
         IN  [lp |-> FilterLoop(l1, j), out |-> <<>>, closed |-> FALSE]
    ELSE [lp |-> lp, out |-> <<>>, closed |-> FALSE]

\* No rewind.  (A variant of RxRewind, used to show that C18 depends on the
\* reset of the pointers of an empty buffer.)
RxRewindNever(lp) == lp

\* The second loop of tmxr_poll_rx: an empty buffer gets its pointers reset.
RxRewind(lp) ==
    IF lp.rxbpi = lp.rxbpr THEN [lp EXCEPT !.rxbpi = 0, !.rxbpr = 0] ELSE lp

\* A read that never reports a break.  (A variant of tmxr_getc_ln, used to
\* show that C7 depends on the break flag.)
tmxr_getc_ln_nobreak(lp) ==
    LET has == (lp.conn # 0) /\ (lp.rcve # 0) /\ (lp.rxbpi - lp.rxbpr # 0)
        val == IF has
               THEN [valid |-> 1, chr |-> lp.rxb[lp.rxbpr], brk |-> 0]
               ELSE [valid |-> 0, chr |-> 0, brk |-> 0]
        l1  == IF has THEN [lp EXCEPT !.rxbpr = lp.rxbpr + 1] ELSE lp
    IN  [lp |-> RxRewind(l1), val |-> val]

\* tmxr_getc_ln: the result is the line and the value: valid = 0 when there
\* is no character, else the character and its break flag.
tmxr_getc_ln(lp) ==
    LET has == (lp.conn # 0) /\ (lp.rcve # 0) /\ (lp.rxbpi - lp.rxbpr # 0)
        val == IF has
               THEN [valid |-> 1, chr |-> lp.rxb[lp.rxbpr],
                     brk |-> IF lp.rbr[lp.rxbpr] # 0 THEN 1 ELSE 0]
               ELSE [valid |-> 0, chr |-> 0, brk |-> 0]
        l1  == IF has THEN [lp EXCEPT !.rxbpr = lp.rxbpr + 1] ELSE lp
    IN  [lp |-> RxRewind(l1), val |-> val]

(* ------------------------------------------------------------------ *)
(* Connections.                                                        *)
(* ------------------------------------------------------------------ *)

\* A search that ignores the order array: the first free line in sequence.
\* (A variant of FindLine, used to show that C3 depends on the order.)
FindLineSequential(ld, order, nl, j, k) ==
    LET free == {i \in 0..(nl - 1) : ld[i].conn = 0}
    IN  IF free = {} THEN nl ELSE CHOOSE i \in free : \A i2 \in free : i <= i2

\* The search loop of tmxr_poll_conn, from turn j with the order pointer at
\* position k: the value of i when the loop ends.
RECURSIVE FindLine(_, _, _, _, _)
FindLine(ld, order, nl, j, k) ==
    IF j >= nl THEN nl
    ELSE LET listed == (DOMAIN order # {}) /\ (order[k] >= 0) /\ (order[k] < nl)
             i  == IF listed THEN order[k] ELSE j
             k2 == IF listed THEN k + 1 ELSE k
         IN  IF ld[i].conn = 0 THEN i
             ELSE IF j + 1 < nl THEN FindLine(ld, order, nl, j + 1, k2)
             ELSE i + 1

\* What tmxr_poll_conn does to the chosen line before it flushes output:
\* record the connection, place the remove pointer and insert the greeting.
ConnectLine(lp, newsock, buffered) ==
    LET l1 == [lp EXCEPT !.conn = newsock]
        l2 == IF buffered = 0
              THEN [l1 EXCEPT !.txbpi = 0,
                              !.txbpr = l1.txbsz - Len(msgbuf),
                              !.rxcnt = 0, !.txcnt = 0, !.txdrp = 0]
              ELSE IF l1.txcnt > l1.txbsz
                   THEN [l1 EXCEPT !.txbpr = CMod(l1.txbpi + 1, l1.txbsz)]
                   ELSE [l1 EXCEPT !.txbpr = l1.txbsz - Len(msgbuf)]
        l3 == [l2 EXCEPT !.tsta = 0, !.xmte = 1, !.dstb = 0]
        psave == l3.txbpi
        l4 == tmxr_linemsg([l3 EXCEPT !.txbpi = l3.txbpr], msgbuf)
    IN  [l4 EXCEPT !.txbpi = psave]

(* ------------------------------------------------------------------ *)
(* Configuration.                                                      *)
(* ------------------------------------------------------------------ *)

\* tmxr_open_master with a port number: the initialisation of one line.
OpenLine(lp, buffered) ==
    LET l1 == [lp EXCEPT !.conn = 0, !.tsta = 0, !.rxbpi = 0, !.rxbpr = 0,
                         !.txbpi = 0, !.txbpr = 0]
        l2 == IF buffered = 0
              THEN [l1 EXCEPT !.txbfd = 0, !.txbsz = TMXR_MAXBUF,
                              !.txb = Realloc(l1.txb, TMXR_MAXBUF)]
              ELSE l1
    IN  [l2 EXCEPT !.rxcnt = 0, !.txcnt = 0, !.txdrp = 0, !.xmte = 1, !.dstb = 0]

\* tmxr_open_master with BUFFERED[=size]: one line.
BufferLine(lp, size) ==
    [lp EXCEPT !.txbsz = size, !.txbfd = 1, !.txb = Realloc(lp.txb, size),
               !.txbpi = 0, !.txbpr = 0]

\* tmxr_open_master with NOBUFFERED or UNBUFFERED: one line.
UnbufferLine(lp) ==
    [lp EXCEPT !.txbsz = TMXR_MAXBUF, !.txb = Realloc(lp.txb, TMXR_MAXBUF),
               !.txbfd = 0, !.txbpi = 0, !.txbpr = 0]

\* The parsing loop of tmxr_set_lnorder over the ranges of the command, each
\* <<low, high>>.  st is [list, set, idx, result]; a result other than "OK"
\* or a range of all lines ends the loop.
RECURSIVE LnorderParse(_, _, _)
LnorderParse(ranges, max, st) ==
    IF ranges = <<>> THEN st
    ELSE LET low  == Head(ranges)[1]
             high == Head(ranges)[2]
         IN  IF low > high THEN [st EXCEPT !.result = "ARG"]
             ELSE IF (low > max) \/ (high > max) THEN [st EXCEPT !.result = "SUB"]
             ELSE IF (low = 0) /\ (high = max)
                  THEN [st EXCEPT !.list = [@ EXCEPT ![0] = 0 - 1], !.idx = max + 1]
             ELSE LET fresh == {ln \in low..high : ~st.set[ln]}
                      rank(ln) == Cardinality({m \in fresh : m < ln})
                  IN  LnorderParse(Tail(ranges), max,
                          [st EXCEPT
                             !.list = [q \in DOMAIN st.list |->
                                          IF q >= st.idx /\ q < st.idx + Cardinality(fresh)
                                          THEN CHOOSE ln \in fresh : rank(ln) = q - st.idx
                                          ELSE st.list[q]],
                             !.set  = [ln \in DOMAIN st.set |-> st.set[ln] \/ ln \in fresh],
                             !.idx  = st.idx + Cardinality(fresh)])

\* A command that leaves the unspecified lines out (the array keeps the zeros
\* of calloc there).  (A variant of tmxr_set_lnorder, used to show that C23
\* depends on the fill-in.)
tmxr_set_lnorder_nofill(order, nl, ranges) ==
    IF DOMAIN order = {} THEN [result |-> "NXPAR", order |-> order]
    ELSE IF ranges = <<>> THEN [result |-> "MISVAL", order |-> order]
    ELSE LET max == nl - 1
             st0 == [list |-> [q \in 0..max |-> 0], set |-> [q \in 0..max |-> FALSE],
                     idx |-> 0, result |-> "OK"]
             st  == LnorderParse(ranges, max, st0)
         IN  IF st.result = "OK"
             THEN [result |-> "OK", order |-> st.list]
             ELSE [result |-> st.result, order |-> order]

\* A command that copies its working array whatever the result.  (A variant
\* of tmxr_set_lnorder, used to show that C24 depends on the test of the
\* result before the copy.)
tmxr_set_lnorder_copy(order, nl, ranges) ==
    IF DOMAIN order = {} THEN [result |-> "NXPAR", order |-> order]
    ELSE IF ranges = <<>> THEN [result |-> "MISVAL", order |-> order]
    ELSE LET max == nl - 1
             st0 == [list |-> [q \in 0..max |-> 0], set |-> [q \in 0..max |-> FALSE],
                     idx |-> 0, result |-> "OK"]
             st  == LnorderParse(ranges, max, st0)
         IN  [result |-> st.result, order |-> st.list]

\* tmxr_set_lnorder: the result is the status and the order array afterwards.
tmxr_set_lnorder(order, nl, ranges) ==
    IF DOMAIN order = {} THEN [result |-> "NXPAR", order |-> order]
    ELSE IF ranges = <<>> THEN [result |-> "MISVAL", order |-> order]
    ELSE LET max == nl - 1
             st0 == [list |-> [q \in 0..max |-> 0], set |-> [q \in 0..max |-> FALSE],
                     idx |-> 0, result |-> "OK"]
             st  == LnorderParse(ranges, max, st0)
             rest == {ln \in 0..max : ~st.set[ln]}
             rank(ln) == Cardinality({m \in rest : m < ln})
             filled == IF st.idx <= max
                       THEN [q \in 0..max |->
                               IF q >= st.idx
                               THEN CHOOSE ln \in rest : rank(ln) = q - st.idx
                               ELSE st.list[q]]
                       ELSE st.list
         IN  IF st.result = "OK"
             THEN [result |-> "OK", order |-> filled]
             ELSE [result |-> st.result, order |-> order]

(* ------------------------------------------------------------------ *)
(* Log files (sim_console.cpp).  A log sink is a file pointer and a    *)
(* pointer to a reference object that counts the sinks of the file.    *)
(* Files opened by name are numbered 1, 2, ...; a file and its         *)
(* reference object have the same number.                              *)
(* ------------------------------------------------------------------ *)

\* The number of files that are opened by name.
MaxRef == 2

RefIds == 1..MaxRef

\* File pointers: NULL, a file opened by name, smp_stdout, smp_stderr.
NoFile == 0
StdoutFile == 0 - 1
StderrFile == 0 - 2

\* sim_log, sim_deb and the log of the console line (txlog, txlogref) NULL,
\* no reference object allocated.  freed holds the
\* reference objects that were freed (their files are closed); uaf says that
\* a freed object was used, after which nothing is known of the program; st
\* is the status of the last command.
NoLogs ==
    [ sim_log |-> NoFile, sim_log_ref |-> 0,
      sim_deb |-> NoFile, sim_deb_ref |-> 0,
      txlog |-> NoFile, txlogref |-> 0,
      refcount |-> [r \in RefIds |-> 0],
      freed |-> {},
      nref |-> 0,
      uaf |-> FALSE,
      st |-> "OK" ]

\* The sinks of the process: "log" is (sim_log, sim_log_ref), "deb" is
\* (sim_deb, sim_deb_ref).
Sinks == {"log", "deb"}

\* The sink of a line: "line" is (lp->txlog, lp->txlogref).
LineSinks == {"line"}

Pf(L, h) ==
    IF h = "log" THEN L.sim_log ELSE IF h = "deb" THEN L.sim_deb ELSE L.txlog
Pref(L, h) ==
    IF h = "log" THEN L.sim_log_ref ELSE IF h = "deb" THEN L.sim_deb_ref ELSE L.txlogref
SetPf(L, h, f) ==
    IF h = "log" THEN [L EXCEPT !.sim_log = f]
    ELSE IF h = "deb" THEN [L EXCEPT !.sim_deb = f]
    ELSE [L EXCEPT !.txlog = f]
SetPref(L, h, r) ==
    IF h = "log" THEN [L EXCEPT !.sim_log_ref = r]
    ELSE IF h = "deb" THEN [L EXCEPT !.sim_deb_ref = r]
    ELSE [L EXCEPT !.txlogref = r]

\* sim_close_logfile (pref) for the sink h: the count goes down by one; at
\* zero the file is closed, the object freed and the pointer cleared.  With
\* sinks remaining the pointer is left as it is.
sim_close_logfile(L, h) ==
    LET r == Pref(L, h)
    IN  IF r = 0 THEN L
        ELSE IF r \in L.freed THEN [L EXCEPT !.uaf = TRUE]
        ELSE LET L1 == [L EXCEPT !.refcount[r] = @ - 1]
             IN  IF L1.refcount[r] > 0 THEN L1
                 ELSE SetPref([L1 EXCEPT !.freed = @ \cup {r}], h, 0)

\* ++(*pref)->refcount after the sink h was bound to a reference.
BumpRef(L, h) ==
    LET r == Pref(L, h)
    IN  IF r = 0 THEN L
        ELSE IF r \in L.freed THEN [L EXCEPT !.uaf = TRUE]
        ELSE [L EXCEPT !.refcount[r] = @ + 1]

\* sim_open_logfile (filename, binary, pf, pref) for the sink h.  name is the
\* glyph: "LOG", "DEBUG", "STDOUT", "STDERR" or "FILE" (any other name);
\* opened says whether smp_fopen gives a file.  The result is the state and
\* the status.
sim_open_logfile(L, h, name, opened) ==
    LET L1 == SetPf(sim_close_logfile(L, h), h, NoFile)
    IN  CASE name = "LOG" ->
               IF L1.sim_log = NoFile THEN [L |-> L1, st |-> "ARG"]
               ELSE [L |-> BumpRef(SetPref(SetPf(L1, h, L1.sim_log), h, L1.sim_log_ref), h),
                     st |-> "OK"]
          [] name = "DEBUG" ->
               IF L1.sim_deb = NoFile THEN [L |-> L1, st |-> "ARG"]
               ELSE [L |-> BumpRef(SetPref(SetPf(L1, h, L1.sim_deb), h, L1.sim_deb_ref), h),
                     st |-> "OK"]
          [] name = "STDOUT" -> [L |-> SetPref(SetPf(L1, h, StdoutFile), h, 0), st |-> "OK"]
          [] name = "STDERR" -> [L |-> SetPref(SetPf(L1, h, StderrFile), h, 0), st |-> "OK"]
          [] OTHER ->
               LET r == L1.nref + 1
               IN  IF ~opened THEN [L |-> SetPref(L1, h, 0), st |-> "OPENERR"]
                   ELSE [L  |-> SetPref(SetPf([L1 EXCEPT !.nref = r,
                                                          !.refcount[r] = 1], h, r), h, r),
                         st |-> "OK"]

\* sim_set_logoff: with a log, close it and clear sim_log.  (The message
\* written to the log is not modelled.)
sim_set_logoff(L) ==
    IF L.sim_log = NoFile THEN L
    ELSE [sim_close_logfile(L, "log") EXCEPT !.sim_log = NoFile]

\* sim_set_logon: close the current log, open the new one.
sim_set_logon(L, name, opened) == sim_open_logfile(sim_set_logoff(L), "log", name, opened)

\* sim_set_debon: open the debug output (sim_open_logfile closes the old one).
sim_set_debon(L, name, opened) == sim_open_logfile(L, "deb", name, opened)

\* sim_set_deboff: with debug output, close it and clear sim_deb.
sim_set_deboff(L) ==
    IF L.sim_deb = NoFile THEN L
    ELSE [sim_close_logfile(L, "deb") EXCEPT !.sim_deb = NoFile]

(* ------------------------------------------------------------------ *)
(* Console character conversion (sim_console.cpp).                     *)
(* ------------------------------------------------------------------ *)

\* int32 sim_tt_pchar = 0x00002780
sim_tt_pchar == 10112

\* The result of sim_tt_outcvt for a character that is not printed.
Dropped == 0 - 1

\* No conversion has been made.
NotConverted == 0 - 2

\* (v >> c) & 1
RECURSIVE Bit(_, _)
Bit(v, c) == IF c = 0 THEN v % 2 ELSE Bit(v \div 2, c - 1)

\* toupper (c) when islower (c), in the C locale
ToUpper(c) == IF c >= 97 /\ c <= 122 THEN c - 32 ELSE c

\* sim_tt_outcvt (c, mode): md is the mode ("7B", "7P", "UC", "8B"), ksr the
\* TTUF_KSR flag, pchar the value of sim_tt_pchar.
sim_tt_outcvt(c, md, ksr, pchar) ==
    IF md # "8B"
    THEN LET c1 == c % 128
             c2 == IF md = "UC" THEN ToUpper(c1) ELSE c1
         IN  IF (md = "UC") /\ ksr /\ (c2 >= 96) THEN Dropped
             ELSE IF (md = "UC" \/ md = "7P")
                     /\ (c2 = 127 \/ (c2 < 32 /\ Bit(pchar, c2) = 0))
                  THEN Dropped
                  ELSE c2
    ELSE c % 256

(* ------------------------------------------------------------------ *)
(* The console (sim_console.cpp): a multiplexer of one line, a lock,   *)
(* and the threads that call its routines.                             *)
(* ------------------------------------------------------------------ *)

Threads == {1, 2}

\* A status without a character.
Rv(st) == [st |-> st, chr |-> 0, brk |-> 0]

\* The lock is free and no thread is inside a console routine.  pc is the
\* routine a thread is in ("idle" when in none), arg the character or the
\* number of seconds it was called with, uc the use_console it was called
\* with, key what sim_os_poll_kbd gave it (both of the call in progress), i the loop counter of
\* sim_check_console, rv what the last call of the thread returned.  slog and
\* osout are the characters the console routines wrote to sim_log and to the
\* window, waits the number of "Waiting for console Telnet connection"
\* messages of the last sim_check_console, n the number of characters given
\* to sim_putchar and sim_putchar_s (histories).
NewConsole ==
    [ lock  |-> 0,
      pc    |-> [t \in Threads |-> "idle"],
      arg   |-> [t \in Threads |-> 0],
      uc    |-> [t \in Threads |-> FALSE],
      key   |-> [t \in Threads |-> "none"],
      i     |-> [t \in Threads |-> 0],
      rv    |-> [t \in Threads |-> Rv("OK")],
      slog  |-> <<>>,
      osout |-> <<>>,
      waits |-> 0,
      n     |-> 0 ]

(* ------------------------------------------------------------------ *)
(* State.                                                              *)
(* ------------------------------------------------------------------ *)

VARIABLES
    lines,      \* mp->lines
    ldsc,       \* mp->ldsc: the line descriptors, 0..lines-1
    master,     \* mp->master: the listening socket, 0 = none
    buffered,   \* mp->buffered: 0 or the size of the buffered transmit ring
    lnorder,    \* mp->lnorder: the connection order array or NULL
    ret,        \* what the last tmxr_poll_conn that accepted returned
    nextsock,   \* the socket the next accept returns
    sockopen,   \* the accepted sockets not yet closed
    wire,       \* per socket, the bytes the program has written to it
    inq,        \* per socket, the bytes of the peer not yet read
    peerout,    \* per socket, what the peer has sent (history)
    ntok,       \* number of items peers have sent (history)
    puts,       \* per line, the tmxr_putc_ln calls made (history): the character,
                \* the status returned, and conn and master at the call
    gets,       \* per line, the characters tmxr_getc_ln returned (history)
    logst,      \* sim_log, sim_deb, their references and the reference objects
    con,        \* the console: its lock, the threads inside its routines
    tt          \* sim_tt_pchar (pchar) and the last conversion: the character,
                \* the mode, the mask it read and the result (history)

\* The state of the process outside the multiplexer.
simvars == << logst, con, tt >>

vars == << lines, ldsc, master, buffered, lnorder, ret, nextsock, sockopen,
           wire, inq, peerout, ntok, puts, gets, logst, con, tt >>

Socks == 1..MaxSock
Lines == 0..(lines - 1)

\* The socket takes all of a write, part of it, or nothing.
FullWrite == TMXR_MAXBUF + GreetLen
WriteResults == {SOCKET_ERROR, 1, FullWrite}

\* Sizes of the buffered transmit ring used by the model.
BufSizes == {GreetLen + 1, GreetLen + 2}

\* The line descriptors start as zeroed static storage; the order array, when
\* the device has one, starts as "sequential".
InitMux(nset, orders) ==
    /\ lines \in nset
    /\ ldsc = [i \in 0..(lines - 1) |-> NewLine]
    /\ master = 0
    /\ buffered = 0
    /\ lnorder \in {IF o = "none" THEN NULL
                    ELSE [q \in 0..(lines - 1) |-> IF q = 0 THEN 0 - 1 ELSE 0] : o \in orders}
    /\ ret = [val |-> 0 - 1, sock |-> 0]
    /\ nextsock = 1
    /\ sockopen = {}
    /\ wire = [sk \in Socks |-> <<>>]
    /\ inq = [sk \in Socks |-> <<>>]
    /\ peerout = [sk \in Socks |-> <<>>]
    /\ ntok = 0
    /\ puts = [i \in 0..(lines - 1) |-> <<>>]
    /\ gets = [i \in 0..(lines - 1) |-> <<>>]

\* No log and no debug output are open; no character has been converted; the
\* printable character mask has its default.
InitWith(nset, orders) ==
    /\ InitMux(nset, orders)
    /\ logst = NoLogs
    /\ con = NewConsole
    /\ tt = [c |-> 0, mode |-> "8B", ksr |-> FALSE, pchar |-> sim_tt_pchar,
             mask |-> sim_tt_pchar, out |-> NotConverted]

\* The result of a write that is not made is no input of a call: it is fixed
\* to FullWrite.
WritesMade(ld, r1, r2) ==
    /\ (r1 # FullWrite) => \E l \in DOMAIN ld : FirstWrite(ld[l])
    /\ (r2 # FullWrite) => \E l \in DOMAIN ld : SecondWrite(ld[l], r1)

\* The wire after each line l has put outs[l] on the socket ld[l].conn.
WireAfter(w, ld, outs) ==
    [sk \in DOMAIN w |->
        IF \E l \in DOMAIN ld : ld[l].conn = sk
        THEN w[sk] \o outs[CHOOSE l \in DOMAIN ld : ld[l].conn = sk]
        ELSE w[sk]]

(* ------------------------------------------------------------------ *)
(* Actions: one per library call.                                      *)
(* ------------------------------------------------------------------ *)

\* tmxr_open_master (mp, "<port>")
OpenMasterPort ==
    /\ master = 0
    /\ master' = 1
    /\ ldsc' = [i \in Lines |-> OpenLine(ldsc[i], buffered)]
    /\ UNCHANGED << lines, buffered, lnorder, ret, nextsock, sockopen, wire, inq,
                    peerout, ntok, puts, gets, simvars >>

\* tmxr_open_master (mp, "BUFFERED=<size>")
OpenMasterBuffered(size) ==
    /\ master = 0
    /\ buffered' = size
    /\ ldsc' = [i \in Lines |-> BufferLine(ldsc[i], size)]
    /\ UNCHANGED << lines, master, lnorder, ret, nextsock, sockopen, wire, inq,
                    peerout, ntok, puts, gets, simvars >>

\* tmxr_open_master (mp, "NOBUFFERED")
OpenMasterUnbuffered ==
    /\ master = 0
    /\ buffered # 0
    /\ buffered' = 0
    /\ ldsc' = [i \in Lines |-> UnbufferLine(ldsc[i])]
    /\ UNCHANGED << lines, master, lnorder, ret, nextsock, sockopen, wire, inq,
                    peerout, ntok, puts, gets, simvars >>

\* tmxr_set_lnorder (..., "<ranges>", mp)
SetLnorder(ranges) ==
    LET r == tmxr_set_lnorder(lnorder, lines, ranges)
    IN  /\ lnorder' = r.order
        /\ UNCHANGED << lines, ldsc, master, buffered, ret, nextsock, sockopen, wire,
                        inq, peerout, ntok, puts, gets, simvars >>

\* tmxr_poll_conn (mp) when sim_accept_conn returns a new socket.  (When it
\* returns INVALID_SOCKET the call changes nothing.)  The mantra and the busy
\* message are written to the new socket at once; r1, r2 are what the sockets
\* take in the tmxr_poll_tx that ends the call.
PollConn(r1, r2) ==
    /\ master # 0
    /\ nextsock <= MaxSock
    /\ LET newsock == nextsock
           i == FindLine(ldsc, lnorder, lines, 0, 0)
       IN  IF i >= lines
           THEN /\ r1 = FullWrite /\ r2 = FullWrite
                /\ wire' = [wire EXCEPT ![newsock] = BusyMsg]
                /\ ret' = [val |-> 0 - 1, sock |-> newsock]
                /\ UNCHANGED << ldsc, sockopen, gets >>
           ELSE LET ld1 == [ldsc EXCEPT ![i] = ConnectLine(ldsc[i], newsock, buffered)]
                    w1  == [wire EXCEPT ![newsock] = mantra]
                    tx  == [l \in Lines |-> PollTxLine(ld1[l], r1, r2)]
                IN  /\ WritesMade(ld1, r1, r2)
                    /\ ldsc' = [l \in Lines |->
                                  IF l = i
                                  THEN [tx[l].lp EXCEPT !.txcnt = @ - Len(msgbuf)]
                                  ELSE tx[l].lp]
                    /\ wire' = WireAfter(w1, ld1, [l \in Lines |-> tx[l].out])
                    /\ sockopen' = sockopen \cup {newsock}
                    /\ ret' = [val |-> i, sock |-> newsock]
                    /\ gets' = [gets EXCEPT ![i] = <<>>]
    /\ nextsock' = nextsock + 1
    /\ UNCHANGED << lines, master, buffered, lnorder, inq, peerout, ntok, puts, simvars >>

\* tmxr_poll_tx (mp)
PollTx(r1, r2) ==
    LET tx == [l \in Lines |-> PollTxLine(ldsc[l], r1, r2)]
    IN  /\ WritesMade(ldsc, r1, r2)
        /\ ldsc' = [l \in Lines |-> tx[l].lp]
        /\ wire' = WireAfter(wire, ldsc, [l \in Lines |-> tx[l].out])
        /\ UNCHANGED << lines, master, buffered, lnorder, ret, nextsock, sockopen,
                        inq, peerout, ntok, puts, gets, simvars >>

\* tmxr_putc_ln (lp, c)
PutcLn(l, c) ==
    /\ LET s == tmxr_putc_ln(ldsc[l], c)
       IN  /\ ldsc' = [ldsc EXCEPT ![l] = s.lp]
           /\ puts' = [puts EXCEPT ![l] =
                          Append(@, [c |-> c, st |-> s.st, conn |-> ldsc[l].conn,
                                     master |-> master])]
    /\ UNCHANGED << lines, master, buffered, lnorder, ret, nextsock, sockopen, wire,
                    inq, peerout, ntok, gets, simvars >>

\* tmxr_set_log (..., "<file>", mp) for line l; opened says whether
\* sim_open_logfile gave a file.  A log already attached is closed first.
SetLog(l, opened) ==
    /\ ldsc' = [ldsc EXCEPT ![l].txlog = opened]
    /\ UNCHANGED << lines, master, buffered, lnorder, ret, nextsock, sockopen, wire,
                    inq, peerout, ntok, puts, gets, simvars >>

\* tmxr_set_nolog (..., NULL, mp) for line l
SetNoLog(l) ==
    /\ ldsc' = [ldsc EXCEPT ![l].txlog = FALSE]
    /\ UNCHANGED << lines, master, buffered, lnorder, ret, nextsock, sockopen, wire,
                    inq, peerout, ntok, puts, gets, simvars >>

\* The device enables or disables reception on line l (lp->rcve = v).
SetRcve(l, v) ==
    /\ ldsc' = [ldsc EXCEPT ![l].rcve = v]
    /\ UNCHANGED << lines, master, buffered, lnorder, ret, nextsock, sockopen, wire,
                    inq, peerout, ntok, puts, gets, simvars >>

\* tmxr_reset_ln (lp)
ResetLn(l, r1, r2) ==
    LET s == tmxr_reset_ln(ldsc[l], r1, r2)
    IN  /\ WritesMade([m \in {l} |-> ldsc[m]], r1, r2)
        /\ ldsc' = [ldsc EXCEPT ![l] = s.lp]
        /\ wire' = WireAfter(wire, ldsc, [m \in Lines |-> IF m = l THEN s.out ELSE <<>>])
        /\ sockopen' = sockopen \ {ldsc[l].conn}
        /\ UNCHANGED << lines, master, buffered, lnorder, ret, nextsock, inq, peerout,
                        ntok, puts, gets, simvars >>

\* tmxr_close_master (mp); r1, r2 are what the sockets take when the lines
\* are reset.
CloseMaster(r1, r2) ==
    LET cl == [l \in Lines |-> tmxr_close_master_ln(ldsc[l], r1, r2)]
    IN  /\ master # 0
        /\ WritesMade([l \in Lines |-> IF ldsc[l].conn # 0
                                        THEN tmxr_linemsg(ldsc[l], ByeMsg)
                                        ELSE ldsc[l]], r1, r2)
        /\ ldsc' = [l \in Lines |-> cl[l].lp]
        /\ wire' = WireAfter(wire, ldsc, [l \in Lines |-> cl[l].out])
        /\ sockopen' = sockopen \ {ldsc[l].conn : l \in Lines}
        /\ master' = 0
        /\ UNCHANGED << lines, buffered, lnorder, ret, nextsock, inq, peerout, ntok,
                        puts, gets, simvars >>

\* The peer of socket sk sends the bytes tok.
PeerSend(sk, tok) ==
    /\ sk \in sockopen
    /\ ntok' = ntok + 1
    /\ inq' = [inq EXCEPT ![sk] = @ \o tok]
    /\ peerout' = [peerout EXCEPT ![sk] = @ \o tok]
    /\ UNCHANGED << lines, ldsc, master, buffered, lnorder, ret, nextsock, sockopen,
                    wire, puts, gets, simvars >>

\* tmxr_poll_rx (mp).  rd[l] is the result of the read on line l: the number
\* of bytes read (a read takes at most what was asked for and what the peer
\* has sent) or SOCKET_ERROR for a closed or failed connection; r1, r2 are
\* what the socket takes when a failed line is reset.
PollRx(rd, r1, r2) ==
    /\ \A l \in Lines :
          IF (ldsc[l].conn = 0) \/ (ldsc[l].rcve = 0) \/ ~Reads(ldsc[l]) THEN rd[l] = 0
          ELSE rd[l] <= Min(ReadWant(ldsc[l]), Len(inq[ldsc[l].conn]))
    /\ LET rx == [l \in Lines |->
                    PollRxLine(ldsc[l],
                               IF rd[l] > 0 THEN SubSeq(inq[ldsc[l].conn], 1, rd[l]) ELSE <<>>,
                               rd[l] = SOCKET_ERROR, r1, r2)]
       IN  /\ WritesMade([m \in {l \in Lines : rd[l] = SOCKET_ERROR} |-> ldsc[m]], r1, r2)
           /\ ldsc' = [l \in Lines |-> RxRewind(rx[l].lp)]
           /\ wire' = WireAfter(wire, ldsc, [l \in Lines |-> rx[l].out])
           /\ sockopen' = sockopen \ {ldsc[l].conn : l \in {m \in Lines : rx[m].closed}}
           /\ inq' = [sk \in Socks |->
                        IF \E l \in Lines : ldsc[l].conn = sk /\ rd[l] > 0
                        THEN LET l == CHOOSE m \in Lines : ldsc[m].conn = sk /\ rd[m] > 0
                             IN  SubSeq(inq[sk], rd[l] + 1, Len(inq[sk]))
                        ELSE inq[sk]]
    /\ UNCHANGED << lines, master, buffered, lnorder, ret, nextsock, peerout, ntok,
                    puts, gets, simvars >>

\* tmxr_getc_ln (lp)
GetcLn(l) ==
    LET s == tmxr_getc_ln(ldsc[l])
    IN  /\ ldsc' = [ldsc EXCEPT ![l] = s.lp]
        /\ gets' = [gets EXCEPT ![l] = IF s.val.valid = 1
                                       THEN Append(@, [chr |-> s.val.chr, brk |-> s.val.brk])
                                       ELSE @]
        /\ UNCHANGED << lines, master, buffered, lnorder, ret, nextsock, sockopen, wire,
                        inq, peerout, ntok, puts, simvars >>

(* ------------------------------------------------------------------ *)
(* Specifications.                                                     *)
(* ------------------------------------------------------------------ *)

\* The device sends the bytes 1, 2, 3, ... (every data byte is sent once, so
\* its place in the output is recognisable) and, at any point, an IAC.
PutBytes(l) == {Len(puts[l]) + 1, TN_IAC}

\* What a poll of the sockets of a multiplexer returns: one result per line.
ReadResults == [Lines -> (0 - 1)..TMXR_MAXBUF]

\* A single-line multiplexer (such as the console) with a device that writes:
\* configuration, connections, output, disconnects.
Init == InitWith({1}, {"none"})

Next ==
    \/ OpenMasterPort
    \/ \E size \in BufSizes : OpenMasterBuffered(size)
    \/ OpenMasterUnbuffered
    \/ \E r1, r2 \in WriteResults : nextsock <= MaxConn /\ PollConn(r1, r2)
    \/ \E r1, r2 \in WriteResults : PollTx(r1, r2)
    \/ \E l \in Lines : \E c \in PutBytes(l) : Len(puts[l]) < MaxPut /\ PutcLn(l, c)
    \/ \E l \in Lines : \E r1, r2 \in WriteResults : ResetLn(l, r1, r2)
    \/ \E rd \in ReadResults : \E r1, r2 \in WriteResults : PollRx(rd, r1, r2)

Spec == Init /\ [][Next]_vars

\* An unbuffered single-line multiplexer whose device writes until the
\* transmit buffer is full.
FillPuts == TMXR_MAXBUF - 1

NextUnbuf ==
    \/ OpenMasterPort
    \/ \E r1, r2 \in WriteResults : nextsock <= MaxConn /\ PollConn(r1, r2)
    \/ \E r1, r2 \in WriteResults : PollTx(r1, r2)
    \/ \E l \in Lines : \E c \in PutBytes(l) : Len(puts[l]) < FillPuts /\ PutcLn(l, c)
    \/ \E l \in Lines : \E r1, r2 \in WriteResults : ResetLn(l, r1, r2)

SpecUnbuf == Init /\ [][NextUnbuf]_vars

\* What the peer sends, one item at a time: data bytes, a CR with its pad,
\* a break, an escaped IAC, and the BINARY option either way.
Tokens ==
    { <<65>>, <<66>>, <<TN_CR, TN_LF>>, <<TN_CR, TN_NUL>>, <<TN_IAC, TN_BRK>>,
      <<TN_IAC, TN_IAC>>, <<TN_IAC, TN_WONT, TN_BIN>>, <<TN_IAC, TN_WILL, TN_BIN>> }

\* A single-line multiplexer with one client that connects and sends, and a
\* device that reads.
NextRx ==
    \/ OpenMasterPort
    \/ nextsock = 1 /\ PollConn(FullWrite, FullWrite)
    \/ \E sk \in Socks : \E tok \in Tokens : ntok < MaxTok /\ PeerSend(sk, tok)
    \/ \E rd \in ReadResults : PollRx(rd, FullWrite, FullWrite)
    \/ \E l \in Lines : GetcLn(l)

SpecRx == Init /\ [][NextRx]_vars

\* A multiplexer of several lines with a connection order: line order
\* commands, accepts, resets and disconnects.  No device writes, and the
\* sockets take what is written to them.  The multiplexer has two or four
\* lines.
LineCounts == {2, 4}

InitOrder == InitWith(LineCounts, {"none", "array"})

\* Line order commands: one or two ranges, each a single line or all lines; a
\* range may name the line after the last one (out of range).  The empty
\* command is the missing value.
RangeSeqs ==
    LET R == {<<n, n>> : n \in 0..lines} \cup {<<0, lines - 1>>}
    IN  {<<>>} \cup {<<r>> : r \in R} \cup {<<r, q>> : r \in R, q \in R}

\* With no data arriving, the reads return nothing, or the read of one line fails.
IdleReads ==
    {[l \in Lines |-> IF l = bad THEN SOCKET_ERROR ELSE 0] : bad \in (0 - 1)..(lines - 1)}

NextOrder ==
    \/ OpenMasterPort
    \/ \E ranges \in RangeSeqs : SetLnorder(ranges)
    \/ PollConn(FullWrite, FullWrite)
    \/ \E l \in Lines : ResetLn(l, FullWrite, FullWrite)
    \/ \E rd \in IdleReads : PollRx(rd, FullWrite, FullWrite)

SpecOrder == InitOrder /\ [][NextOrder]_vars

\* A buffered single-line multiplexer whose device writes one character more
\* than the ring has positions, so that the ring fills, wraps and evicts;
\* one client connects, and the socket takes what is written to it.
NextBuf ==
    \/ \E size \in BufSizes : OpenMasterBuffered(size)
    \/ OpenMasterPort
    \/ nextsock = 1 /\ PollConn(FullWrite, FullWrite)
    \/ PollTx(FullWrite, FullWrite)
    \/ \E l \in Lines : \E c \in PutBytes(l) :
          Len(puts[l]) <= ldsc[l].txbsz /\ PutcLn(l, c)
    \/ \E l \in Lines : ResetLn(l, FullWrite, FullWrite)

SpecBuf == Init /\ [][NextBuf]_vars

\* Sizes of a buffered transmit ring that cannot hold the greeting.
SmallBufSizes == {GreetLen - 1}

\* A buffered single-line multiplexer whose ring is smaller than the greeting.
NextSmallBuf ==
    \/ \E size \in SmallBufSizes : OpenMasterBuffered(size)
    \/ OpenMasterPort
    \/ \E r1, r2 \in WriteResults : nextsock <= MaxConn /\ PollConn(r1, r2)
    \/ \E r1, r2 \in WriteResults : PollTx(r1, r2)
    \/ \E l \in Lines : \E c \in PutBytes(l) : Len(puts[l]) < MaxPut /\ PutcLn(l, c)
    \/ \E l \in Lines : \E r1, r2 \in WriteResults : ResetLn(l, r1, r2)

SpecSmallBuf == Init /\ [][NextSmallBuf]_vars

\* A single-line multiplexer with a line log that is attached and detached
\* while the device writes; one client connects, and the socket takes what
\* is written to it.
NextLog ==
    \/ OpenMasterPort
    \/ \E size \in BufSizes : OpenMasterBuffered(size)
    \/ OpenMasterUnbuffered
    \/ \E l \in Lines : \E opened \in BOOLEAN : SetLog(l, opened)
    \/ \E l \in Lines : SetNoLog(l)
    \/ nextsock = 1 /\ PollConn(FullWrite, FullWrite)
    \/ PollTx(FullWrite, FullWrite)
    \/ \E l \in Lines : \E c \in PutBytes(l) : Len(puts[l]) < MaxPut /\ PutcLn(l, c)
    \/ \E l \in Lines : ResetLn(l, FullWrite, FullWrite)

SpecLog == Init /\ [][NextLog]_vars

\* What the peer sends when the device switches reception on and off.
GetTokens == { <<65>>, <<TN_IAC, TN_IAC>>, <<TN_IAC, TN_BRK>>, <<TN_IAC, TN_WILL, TN_SGA>> }

\* A single-line multiplexer with one client that connects and sends, and a
\* device that reads and switches reception on and off.
NextGet ==
    \/ OpenMasterPort
    \/ nextsock = 1 /\ PollConn(FullWrite, FullWrite)
    \/ \E sk \in Socks : \E tok \in GetTokens : ntok < MaxTok /\ PeerSend(sk, tok)
    \/ \E rd \in ReadResults : PollRx(rd, FullWrite, FullWrite)
    \/ \E l \in Lines : GetcLn(l)
    \/ \E l \in Lines : \E v \in {0, 1} : SetRcve(l, v)

SpecGet == Init /\ [][NextGet]_vars

\* A single-line multiplexer, buffered or not, with one client that connects
\* and sends data, and a device that writes and reads.
NextDuplex ==
    \/ OpenMasterPort
    \/ \E size \in BufSizes : OpenMasterBuffered(size)
    \/ OpenMasterUnbuffered
    \/ nextsock = 1 /\ PollConn(FullWrite, FullWrite)
    \/ \E sk \in Socks : ntok < MaxTok /\ PeerSend(sk, <<65>>)
    \/ \E rd \in ReadResults : PollRx(rd, FullWrite, FullWrite)
    \/ \E l \in Lines : GetcLn(l)
    \/ \E l \in Lines : \E c \in PutBytes(l) : Len(puts[l]) < MaxPut /\ PutcLn(l, c)
    \/ PollTx(FullWrite, FullWrite)
    \/ \E l \in Lines : \E r1 \in WriteResults : ResetLn(l, r1, FullWrite)

SpecDuplex == Init /\ [][NextDuplex]_vars

\* Line order commands of up to two ranges with any bounds from 0 to the
\* number of lines: single lines, partial ranges, all lines, reversed ranges
\* (which get_range rejects) and ranges that reach past the last line.
OrderCommands ==
    LET R == {<<lo, hi>> : lo \in 0..lines, hi \in 0..lines}
    IN  {<<>>} \cup {<<r>> : r \in R} \cup {<<r, q>> : r \in R, q \in R}

\* A multiplexer of three or four lines, with or without an order array,
\* that takes line order commands and accepts connections in that order.
LnorderLineCounts == {3, 4}

InitLnorder == InitWith(LnorderLineCounts, {"none", "array"})

NextLnorder ==
    \/ \E cmd \in OrderCommands : SetLnorder(cmd)
    \/ OpenMasterPort
    \/ nextsock <= MaxConn /\ PollConn(FullWrite, FullWrite)

SpecLnorder == InitLnorder /\ [][NextLnorder]_vars

\* A multiplexer of two lines, buffered or not, whose port is opened and
\* closed: at most one client per line connects, the device writes one
\* character per line, and at the close the sockets take all or nothing of
\* what is written to them.
InitClose == InitWith({2}, {"none"})

NextClose ==
    \/ OpenMasterPort
    \/ \E size \in BufSizes : OpenMasterBuffered(size)
    \/ nextsock <= lines /\ PollConn(FullWrite, FullWrite)
    \/ \E l \in Lines : \E c \in PutBytes(l) : puts[l] = <<>> /\ PutcLn(l, c)
    \/ \E r1 \in {SOCKET_ERROR, FullWrite} : CloseMaster(r1, FullWrite)

SpecClose == InitClose /\ [][NextClose]_vars

(* ------------------------------------------------------------------ *)
(* Properties of tmxr_poll_conn and the connection order (SpecOrder).  *)
(* ------------------------------------------------------------------ *)

\* A step is an accept when the socket counter advances; the accepted socket
\* is nextsock.
Accepting == nextsock' = nextsock + 1

\* The order in which the configuration says lines are offered: sequential
\* when there is no order array or it starts with -1, else the array.
RefOrder ==
    IF (DOMAIN lnorder = {}) \/ (lnorder[0] < 0)
    THEN [q \in 0..(lines - 1) |-> q]
    ELSE lnorder

\* The first line without a connection in that order (when there is one).
FirstFree ==
    LET free == {q \in 0..(lines - 1) : ldsc[RefOrder[q]].conn = 0}
    IN  RefOrder[CHOOSE q \in free : \A q2 \in free : q <= q2]

\* The lines a command of single-line ranges lists, without repetitions.
RECURSIVE Listed(_, _)
Listed(ranges, seen) ==
    IF ranges = <<>> THEN <<>>
    ELSE LET ln == Head(ranges)[1]
         IN  IF ln \in seen THEN Listed(Tail(ranges), seen)
             ELSE <<ln>> \o Listed(Tail(ranges), seen \cup {ln})

\* The lines of set S in ascending order.
RECURSIVE Ascending(_)
Ascending(S) ==
    IF S = {} THEN <<>>
    ELSE LET m == CHOOSE x \in S : \A y \in S : x <= y
         IN  <<m>> \o Ascending(S \ {m})

\* The order array a command asks for: the listed lines, then the others in
\* sequence.
ListedThenSequential(ranges) ==
    LET ls == Listed(ranges, {})
        sq == ls \o Ascending((0..(lines - 1)) \ {ls[k] : k \in 1..Len(ls)})
    IN  [q \in 0..(lines - 1) |-> sq[q + 1]]

\* C1 (as claimed): an accept never stores the new socket into a line that
\* has a connection; a connected line keeps its socket over every accept.
C1_ConnectedLineKeepsSocket ==
    [][Accepting =>
         \A l \in Lines : (ldsc[l].conn # 0) => (ldsc'[l].conn = ldsc[l].conn)]_vars

\* C2 (as claimed): when every line has a connection at an accept, the new
\* socket receives exactly "All connections busy\r\n", is closed, is assigned
\* to no line, and the call returns -1.
C2_AllBusyRefused ==
    [][(Accepting /\ \A l \in Lines : ldsc[l].conn # 0) =>
         /\ wire'[nextsock] = BusyMsg
         /\ nextsock \notin sockopen'
         /\ ret'.val = 0 - 1
         /\ \A l \in Lines : ldsc'[l].conn # nextsock]_vars

\* C3: when a line is free at an accept, the connection goes to the first
\* free line of the configured order, the call returns that line and the other
\* lines keep their sockets; a connection is refused (-1) only when no line is
\* free; and the order array a line order command leaves is the lines it
\* lists followed by the remaining lines in sequence, or starts with -1
\* (sequential) when the command names all lines.
C3_FirstFreeLineWins ==
    [][/\ (Accepting /\ \E l \in Lines : ldsc[l].conn = 0) =>
            /\ ldsc'[FirstFree].conn = nextsock
            /\ ret' = [val |-> FirstFree, sock |-> nextsock]
            /\ \A l \in Lines \ {FirstFree} : ldsc'[l].conn = ldsc[l].conn
       /\ (Accepting /\ ret'.val = 0 - 1) => \A l \in Lines : ldsc[l].conn # 0
       /\ (lnorder' # lnorder) =>
            \E ranges \in RangeSeqs :
               IF \E k \in 1..Len(ranges) : ranges[k] = <<0, lines - 1>>
               THEN lnorder'[0] = 0 - 1
               ELSE lnorder' = ListedThenSequential(ranges)]_vars

\* C3 witness: four lines, order "2;0", four accepts on the idle multiplexer:
\* sockets 1, 2, 3, 4 are on lines 2, 0, 1, 3.
C3_Witness ==
    /\ lines = 4
    /\ lnorder = ListedThenSequential(<< <<2, 2>>, <<0, 0>> >>)
    /\ ldsc[2].conn = 1 /\ ldsc[0].conn = 2 /\ ldsc[1].conn = 3 /\ ldsc[3].conn = 4
    /\ ret = [val |-> 3, sock |-> 4]

(* ------------------------------------------------------------------ *)
(* Properties of the transmit side (Spec, SpecUnbuf).                  *)
(* ------------------------------------------------------------------ *)

\* s with every IAC IAC pair collapsed to a single IAC.
RECURSIVE Collapse(_)
Collapse(s) ==
    IF s = <<>> THEN <<>>
    ELSE IF (Len(s) >= 2) /\ (s[1] = TN_IAC) /\ (s[2] = TN_IAC)
         THEN <<TN_IAC>> \o Collapse(SubSeq(s, 3, Len(s)))
         ELSE <<s[1]>> \o Collapse(Tail(s))

\* s with every IAC doubled.
RECURSIVE Stuffed(_)
Stuffed(s) ==
    IF s = <<>> THEN <<>>
    ELSE (IF Head(s) = TN_IAC THEN <<TN_IAC, TN_IAC>> ELSE <<Head(s)>>) \o Stuffed(Tail(s))

\* a is b with some elements left out (order kept, nothing added).
RECURSIVE IsSubseq(_, _)
IsSubseq(a, b) ==
    IF a = <<>> THEN TRUE
    ELSE IF b = <<>> THEN FALSE
    ELSE IF Head(a) = Head(b) THEN IsSubseq(Tail(a), Tail(b))
    ELSE IsSubseq(a, Tail(b))

\* The characters of the tmxr_putc_ln calls in h.
PutChars(h) == [k \in 1..Len(h) |-> h[k].c]

\* The calls of line l that returned SCPE_OK.
Accepted(l) == SelectSeq(puts[l], LAMBDA e : e.st = "OK")

\* What socket sk has received after the option negotiation.
AfterMantra(sk) == SubSeq(wire[sk], Len(mantra) + 1, Len(wire[sk]))

\* The greeting holds these bytes only; the device sends none of them.
GreetingBytes == {msgbuf[k] : k \in 1..Len(msgbuf)}

\* C4 (as claimed): on a connected line whose tmxr_putc_ln calls have all
\* returned SCPE_OK and whose buffer tmxr_poll_tx has drained, the bytes on
\* the socket (option negotiation and greeting bytes aside), with IAC IAC
\* collapsed, are exactly the bytes put.
C4_IACTransparency ==
    \A l \in Lines :
       LET lp == ldsc[l]
       IN  ( /\ lp.conn # 0
             /\ lp.txbfd = 0
             /\ \A k \in 1..Len(puts[l]) : puts[l][k].st = "OK" /\ puts[l][k].conn = lp.conn
             /\ tmxr_tqln(lp) = 0 )
           => Collapse(SelectSeq(AfterMantra(lp.conn), LAMBDA b : b \notin GreetingBytes))
                 = PutChars(puts[l])

\* C5: what a socket receives after the option negotiation, the greeting bytes
\* aside, is the accepted bytes of its line (IAC doubled) in the order they
\* were put, with nothing repeated, nothing reordered and nothing else.
C5_FifoPerLine ==
    \A l \in Lines :
       (ldsc[l].conn # 0) =>
          IsSubseq(SelectSeq(AfterMantra(ldsc[l].conn), LAMBDA b : b \notin GreetingBytes),
                   Stuffed(PutChars(Accepted(l))))

\* C5 witness: the device has put 1 and IAC, both accepted; socket writes
\* were partial, so that the socket has the greeting, the 1 and the first
\* byte of the IAC pair, and the second byte is still in the ring.
C5_Witness ==
    /\ ldsc[0].conn # 0
    /\ PutChars(Accepted(0)) = <<1, TN_IAC>>
    /\ AfterMantra(ldsc[0].conn) = msgbuf \o <<1, TN_IAC>>
    /\ tmxr_tqln(ldsc[0]) = 1

\* C9 (as claimed): on a buffered line, when the device has written k bytes
\* (none of them IAC) with the port open and no client connected, and a client
\* then connects and the buffer is drained, the client has received the
\* greeting followed by the last min(k, size) bytes written.
C9_BufferedReplay ==
    \A l \in Lines :
       LET lp == ldsc[l]
           k  == Len(puts[l])
           n  == Min(k, lp.txbsz)
       IN  ( /\ lp.conn # 0
             /\ lp.txbfd # 0
             /\ \A q \in 1..k : /\ puts[l][q].st = "OK"
                                /\ puts[l][q].conn = 0
                                /\ puts[l][q].master # 0
                                /\ puts[l][q].c # TN_IAC
             /\ tmxr_tqln(lp) = 0 )
           => AfterMantra(lp.conn) = msgbuf \o SubSeq(PutChars(puts[l]), k - n + 1, k)

\* C10 (as claimed): while the multiplexer is open, no step decreases the
\* txdrp counter of a line.
C10_DropsNeverDecrease ==
    [][(master # 0) => \A l \in Lines : ldsc'[l].txdrp >= ldsc[l].txdrp]_vars

\* C10 (amended): while the multiplexer is open, the txdrp counter of a line
\* decreases only when tmxr_poll_conn gives an accepted connection to that
\* line on an unbuffered multiplexer, and then it restarts from 0.
C10_DropsResetOnlyByConnect ==
    [][(master # 0) =>
         \A l \in Lines :
            \/ ldsc'[l].txdrp >= ldsc[l].txdrp
            \/ /\ nextsock' = nextsock + 1
               /\ buffered = 0
               /\ ret' = [val |-> l, sock |-> nextsock]
               /\ ldsc'[l].txdrp = 0]_vars

\* C10 witness: a character was lost on the open, unconnected line (txdrp
\* became 1), and the line is now connected with txdrp = 0.
C10_Witness ==
    /\ ldsc[0].conn # 0
    /\ ldsc[0].txdrp = 0
    /\ \E k \in 1..Len(puts[0]) : puts[0][k].st = "LOST" /\ puts[0][k].master # 0

(* ------------------------------------------------------------------ *)
(* Properties of the receive side (SpecRx).                            *)
(* ------------------------------------------------------------------ *)

\* s with the pad (LF or NUL) after every CR removed.
RECURSIVE Unpad(_)
Unpad(s) ==
    IF s = <<>> THEN <<>>
    ELSE IF (Len(s) >= 2) /\ (s[1] = TN_CR) /\ (s[2] \in {TN_LF, TN_NUL})
         THEN <<TN_CR>> \o Unpad(SubSeq(s, 3, Len(s)))
         ELSE <<s[1]>> \o Unpad(Tail(s))

\* Every IAC of s is half of an IAC IAC pair (the peer sent no command).
RECURSIVE NoCommands(_)
NoCommands(s) ==
    IF s = <<>> THEN TRUE
    ELSE IF s[1] = TN_IAC
         THEN (Len(s) >= 2) /\ (s[2] = TN_IAC) /\ NoCommands(SubSeq(s, 3, Len(s)))
         ELSE NoCommands(Tail(s))

\* What the Telnet stream s means to the device, as characters with a break
\* mark: IAC IAC is the character IAC, IAC BRK is a break, IAC WILL x and
\* IAC WONT x are no character, and while strip holds a CR swallows the pad
\* that follows it.  WONT BIN turns strip on, WILL BIN turns it off.
RECURSIVE Decode(_, _)
Decode(s, strip) ==
    IF s = <<>> THEN <<>>
    ELSE IF s[1] = TN_IAC
    THEN IF Len(s) = 1 THEN <<>>
         ELSE IF s[2] = TN_IAC
         THEN <<[chr |-> TN_IAC, brk |-> 0]>> \o Decode(SubSeq(s, 3, Len(s)), strip)
         ELSE IF s[2] = TN_BRK
         THEN <<[chr |-> 0, brk |-> 1]>> \o Decode(SubSeq(s, 3, Len(s)), strip)
         ELSE IF Len(s) = 2 THEN <<>>
         ELSE Decode(SubSeq(s, 4, Len(s)),
                     IF s[3] = TN_BIN THEN s[2] = TN_WONT ELSE strip)
    ELSE IF strip /\ (Len(s) >= 2) /\ (s[1] = TN_CR) /\ (s[2] \in {TN_LF, TN_NUL})
    THEN <<[chr |-> TN_CR, brk |-> 0]>> \o Decode(SubSeq(s, 3, Len(s)), strip)
    ELSE <<[chr |-> s[1], brk |-> 0]>> \o Decode(Tail(s), strip)

\* The characters of a sequence of tmxr_getc_ln results.
Chars(g) == [k \in 1..Len(g) |-> g[k].chr]

\* a is the beginning of b.
IsPrefix(a, b) == (Len(a) <= Len(b)) /\ (a = SubSeq(b, 1, Len(a)))

\* Everything the peer of line l has sent has been read, filtered and
\* returned by tmxr_getc_ln.
Consumed(l) ==
    /\ ldsc[l].conn # 0
    /\ inq[ldsc[l].conn] = <<>>
    /\ ldsc[l].rxbpi = ldsc[l].rxbpr
    /\ ldsc[l].tsta = TNS_NORM

\* C6 (as claimed): when the peer of a freshly connected line has sent the
\* Telnet form of user bytes U (IAC doubled, CR followed by a pad, no
\* commands) and all of it has been consumed, tmxr_getc_ln has returned U.
C6_FilterInversion ==
    \A l \in Lines :
       (Consumed(l) /\ NoCommands(peerout[ldsc[l].conn])) =>
          Chars(gets[l]) = Unpad(Collapse(peerout[ldsc[l].conn]))

\* C6 (amended): when the peer of a freshly connected line has sent no
\* commands, tmxr_getc_ln returns what was sent with IAC IAC collapsed and
\* nothing else changed (the pad after a CR is returned too), none of it
\* marked as a break: exactly the user bytes when they hold no CR.
C6_FilterCollapsesIAC ==
    \A l \in Lines :
       ((ldsc[l].conn # 0) /\ NoCommands(peerout[ldsc[l].conn])) =>
          /\ IsPrefix(Chars(gets[l]), Collapse(peerout[ldsc[l].conn]))
          /\ \A k \in 1..Len(gets[l]) : gets[l][k].brk = 0
          /\ Consumed(l) => (Chars(gets[l]) = Collapse(peerout[ldsc[l].conn]))

\* C6 witness: the peer sent CR LF, IAC IAC, A and the device has read
\* CR, LF, IAC, A.
C6_Witness ==
    /\ Consumed(0)
    /\ peerout[ldsc[0].conn] = <<TN_CR, TN_LF, TN_IAC, TN_IAC, 65>>
    /\ Chars(gets[0]) = <<TN_CR, TN_LF, TN_IAC, 65>>

\* C7: the results of tmxr_getc_ln are the characters of the peer's stream,
\* one for one: an IAC BRK is one result with character 0 and the break
\* flag, at its place in the stream, and every other result is a data
\* character without the flag.
C7_BreakMapping ==
    \A l \in Lines :
       (ldsc[l].conn # 0) =>
          LET D == Decode(peerout[ldsc[l].conn], FALSE)
          IN  /\ Len(gets[l]) <= Len(D)
              /\ \A k \in 1..Len(gets[l]) :
                    /\ gets[l][k].brk = D[k].brk
                    /\ (gets[l][k].brk = 1) => (gets[l][k].chr = 0)
                    /\ (gets[l][k].brk = 0) => (gets[l][k].chr = D[k].chr)
              /\ Consumed(l) => (Len(gets[l]) = Len(D))

\* C7 witness: the peer sent 41 FF F3 42 and the device has read A, 0 with
\* the break flag, B.
C7_Witness ==
    /\ ldsc[0].conn # 0
    /\ peerout[ldsc[0].conn] = <<65, TN_IAC, TN_BRK, 66>>
    /\ gets[0] = << [chr |-> 65, brk |-> 0], [chr |-> 0, brk |-> 1], [chr |-> 66, brk |-> 0] >>

\* C8 (as claimed): a line removes the pad after a CR from connect until the
\* peer sends IAC WILL BIN, and passes CR, LF and NUL unchanged after that.
C8_StripFromConnect ==
    \A l \in Lines :
       (ldsc[l].conn # 0) =>
          IsPrefix(Chars(gets[l]), Chars(Decode(peerout[ldsc[l].conn], TRUE)))

\* C8 (amended): a line passes CR, LF and NUL unchanged from connect (and
\* again after the peer sends IAC WILL BIN); it removes the LF or NUL after a
\* CR only after the peer has sent IAC WONT BIN.
C8_StripAfterWontBin ==
    \A l \in Lines :
       (ldsc[l].conn # 0) =>
          /\ IsPrefix(Chars(gets[l]), Chars(Decode(peerout[ldsc[l].conn], FALSE)))
          /\ Consumed(l) =>
                (Chars(gets[l]) = Chars(Decode(peerout[ldsc[l].conn], FALSE)))

\* C8 witness: the peer sent IAC WONT BIN, CR LF, A and the device has read
\* CR, A.
C8_Witness ==
    /\ Consumed(0)
    /\ peerout[ldsc[0].conn] = <<TN_IAC, TN_WONT, TN_BIN, TN_CR, TN_LF, 65>>
    /\ Chars(gets[0]) = <<TN_CR, 65>>

(* ------------------------------------------------------------------ *)
(* Properties of the transmit ring (SpecSmallBuf, SpecBuf, SpecUnbuf). *)
(* ------------------------------------------------------------------ *)

\* C11 (as claimed): the indices of every transmit ring in use stay in
\* range, 0 <= txbpi < txbsz and 0 <= txbpr < txbsz, for every ring size.
C11_IndicesInRange ==
    \A l \in Lines :
       (ldsc[l].txbsz > 0) =>
          /\ 0 <= ldsc[l].txbpi /\ ldsc[l].txbpi < ldsc[l].txbsz
          /\ 0 <= ldsc[l].txbpr /\ ldsc[l].txbpr < ldsc[l].txbsz

\* The number of ring positions the characters of h take (an IAC takes two).
StoredLen(h) == Len(Stuffed(PutChars(h)))

Putting(l) == Len(puts'[l]) = Len(puts[l]) + 1
LastPut(l) == puts'[l][Len(puts'[l])]

\* C15: on a buffered line, connected or not, tmxr_putc_ln never returns
\* SCPE_STALL: it returns SCPE_OK, the character (two for an IAC) is stored
\* as the newest of the ring, and what the ring cannot hold is dropped from
\* its oldest end, txdrp counting one per dropped character.
C15_BufferedNeverStalls ==
    [][\A l \in Lines :
         (Putting(l) /\ ldsc[l].txbfd # 0) =>
            LET lp == ldsc[l]
                lq == ldsc'[l]
                n  == IF LastPut(l).c = TN_IAC THEN 2 ELSE 1
                dropped == tmxr_tqln(lp) + n - tmxr_tqln(lq)
            IN  /\ LastPut(l).st = "OK"
                /\ tmxr_tqln(lq) = Min(tmxr_tqln(lp) + n, lp.txbsz - 1)
                /\ lq.txdrp = lp.txdrp + dropped
                /\ lq.txbpr = (lp.txbpr + dropped) % lp.txbsz
                /\ lq.txbpi = (lp.txbpi + n) % lp.txbsz
                /\ lq.txb[(lq.txbpi + lp.txbsz - 1) % lp.txbsz] = LastPut(l).c]_vars

\* C15 witness: a connected buffered line has dropped a character, and the
\* last call, made while connected, returned SCPE_OK.
C15_Witness ==
    /\ ldsc[0].conn # 0
    /\ ldsc[0].txbfd # 0
    /\ ldsc[0].txdrp > 0
    /\ Len(puts[0]) > 0
    /\ puts[0][Len(puts[0])].conn # 0
    /\ puts[0][Len(puts[0])].st = "OK"

\* C16 (as claimed): on a connected unbuffered line tmxr_putc_ln returns
\* SCPE_STALL and counts a drop exactly when the ring (which holds size - 1
\* characters) has no room for the character, two positions for an IAC;
\* otherwise it stores the character, returns SCPE_OK, drops nothing, and
\* clears xmte when fewer than TMXR_GUARD positions are left.
C16_StallWhenNoRoom ==
    [][\A l \in Lines :
         (Putting(l) /\ ldsc[l].txbfd = 0 /\ ldsc[l].conn # 0) =>
            LET lp == ldsc[l]
                lq == ldsc'[l]
                n  == IF LastPut(l).c = TN_IAC THEN 2 ELSE 1
                room == lp.txbsz - 1 - tmxr_tqln(lp)
            IN  IF room < n
                THEN /\ LastPut(l).st = "STALL"
                     /\ lq.txdrp = lp.txdrp + 1
                     /\ tmxr_tqln(lq) = tmxr_tqln(lp)
                ELSE /\ LastPut(l).st = "OK"
                     /\ lq.txdrp = lp.txdrp
                     /\ tmxr_tqln(lq) = tmxr_tqln(lp) + n
                     /\ (room - n < TMXR_GUARD) => (lq.xmte = 0)]_vars

(* ------------------------------------------------------------------ *)
(* Properties of unconnected lines and of line logs (SpecDuplex,       *)
(* SpecLog).                                                           *)
(* ------------------------------------------------------------------ *)

\* C13: in every reachable state a line with no connection and no buffered
\* mode has an empty receive buffer (both pointers zero) and an empty
\* transmit ring.
C13_IdleLineEmpty ==
    \A l \in Lines :
       (ldsc[l].conn = 0 /\ ldsc[l].txbfd = 0) =>
          /\ ldsc[l].rxbpi = 0
          /\ ldsc[l].rxbpr = 0
          /\ tmxr_tqln(ldsc[l]) = 0

\* C13 witness: an unbuffered line has been reset while its receive buffer
\* held a character the device had not taken and while its transmit ring held
\* a character the socket had not taken.
C13_Witness ==
    /\ ldsc[0].conn = 0
    /\ ldsc[0].txbfd = 0
    /\ nextsock = 2
    /\ sockopen = {}
    /\ inq[1] = <<>>
    /\ Len(gets[0]) < Len(peerout[1])
    /\ \E k \in 1..Len(puts[0]) :
          /\ puts[0][k].st = "OK"
          /\ puts[0][k].conn = 1
          /\ \A j \in 1..Len(wire[1]) : wire[1][j] # puts[0][k].c

\* C14: tmxr_putc_ln on a line with no connection and no buffered mode
\* returns SCPE_OK when the line has a log, and otherwise returns SCPE_LOST
\* and adds one to txdrp; either way the transmit ring is left as it was.
C14_UnconnectedPut ==
    [][\A l \in Lines :
         (Putting(l) /\ ldsc[l].conn = 0 /\ ldsc[l].txbfd = 0) =>
            LET lp == ldsc[l]
                lq == ldsc'[l]
            IN  /\ lp.txlog => (LastPut(l).st = "OK" /\ lq.txdrp = lp.txdrp)
                /\ ~lp.txlog => (LastPut(l).st = "LOST" /\ lq.txdrp = lp.txdrp + 1)
                /\ lq.txb = lp.txb
                /\ lq.txbpi = lp.txbpi
                /\ lq.txbpr = lp.txbpr]_vars

\* C14 witness: on an unbuffered line with the port open and no connection,
\* a first call was lost and a second, after a log was attached, returned
\* SCPE_OK; the ring is empty.
C14_Witness ==
    /\ buffered = 0
    /\ master # 0
    /\ ldsc[0].conn = 0
    /\ nextsock = 1
    /\ Len(puts[0]) = 2
    /\ puts[0][1].st = "LOST" /\ puts[0][1].master # 0
    /\ puts[0][2].st = "OK" /\ puts[0][2].master # 0
    /\ ldsc[0].txlogf = << puts[0][2].c >>
    /\ ldsc[0].txdrp = 1
    /\ tmxr_tqln(ldsc[0]) = 0

\* C17: when a line has a log, tmxr_putc_ln writes its character to the log
\* whatever the connection, the buffered mode and the status returned; a
\* call on a line with no log writes nothing.
C17_EveryPutLogged ==
    [][\A l \in Lines :
         Putting(l) =>
            ldsc'[l].txlogf = (IF ldsc[l].txlog
                               THEN Append(ldsc[l].txlogf, LastPut(l).c)
                               ELSE ldsc[l].txlogf)]_vars

\* C17 witness: a line with a log took one character with no connection and
\* one while connected, and the log holds both.
C17_Witness ==
    /\ ldsc[0].txlog
    /\ Len(puts[0]) = 2
    /\ puts[0][1].conn = 0
    /\ puts[0][2].conn # 0
    /\ IsSubseq(PutChars(puts[0]), ldsc[0].txlogf)

(* ------------------------------------------------------------------ *)
(* Properties of tmxr_getc_ln, tmxr_poll_tx and the mantra (SpecGet,   *)
(* Spec).                                                              *)
(* ------------------------------------------------------------------ *)

\* The characters of the receive buffer that tmxr_getc_ln has not returned.
RxPending(lp) == [k \in 1..(lp.rxbpi - lp.rxbpr) |-> lp.rxb[lp.rxbpr + k - 1]]

\* C18: tmxr_getc_ln returns nothing and consumes nothing when the line has
\* no connection or reception is disabled; otherwise it returns the oldest
\* pending character and removes exactly that one, so that the characters
\* returned so far are the beginning of the filtered input, in order; and
\* whenever the buffer is empty after the call both pointers are zero.
C18_GetChar ==
    \A l \in Lines :
       LET lp == ldsc[l]
           r  == tmxr_getc_ln(lp)
       IN  /\ (lp.conn = 0 \/ lp.rcve = 0)
                 => (r.val.valid = 0 /\ RxPending(r.lp) = RxPending(lp))
           /\ (lp.conn # 0 /\ lp.rcve # 0 /\ RxPending(lp) = <<>>)
                 => r.val.valid = 0
           /\ (lp.conn # 0 /\ lp.rcve # 0 /\ RxPending(lp) # <<>>)
                 => /\ r.val.valid = 1
                    /\ << r.val.chr >> \o RxPending(r.lp) = RxPending(lp)
           /\ (RxPending(r.lp) = <<>>) => (r.lp.rxbpi = 0 /\ r.lp.rxbpr = 0)
           /\ (lp.conn # 0) => IsPrefix(gets[l], Decode(peerout[lp.conn], FALSE))

\* C18 witness: a connected line has returned a character, reception is now
\* disabled, and a character is pending that tmxr_getc_ln does not return.
C18_Witness ==
    /\ ldsc[0].conn # 0
    /\ ldsc[0].rcve = 0
    /\ Len(gets[0]) >= 1
    /\ RxPending(ldsc[0]) # <<>>
    /\ tmxr_getc_ln(ldsc[0]).val.valid = 0

\* The queued characters of the transmit ring, oldest first.
TxQueued(lp) ==
    [k \in 1..tmxr_tqln(lp) |-> lp.txb[(lp.txbpr + k - 1) % lp.txbsz]]

\* C19: tmxr_poll_tx loses no queued character: whatever the socket takes
\* (nothing, an error, a part, everything), what it took followed by what
\* stays in the ring is what was queued, in order; and when tmxr_poll_tx
\* leaves the ring of a connected line empty it sets xmte.
C19_PollTxLosesNothing ==
    \A l \in Lines : \A r1 \in WriteResults : \A r2 \in WriteResults :
       LET lp == ldsc[l]
           s  == PollTxLine(lp, r1, r2)
       IN  (lp.conn # 0 /\ lp.txbsz > 0) =>
              /\ s.out \o TxQueued(s.lp) = TxQueued(lp)
              /\ (tmxr_tqln(s.lp) = 0) => (s.lp.xmte = 1)

\* C19 witness: the socket took the first character of the greeting only;
\* the line is disabled and the rest of the greeting is the oldest queued
\* character.
C19_Witness ==
    /\ ldsc[0].conn # 0
    /\ AfterMantra(ldsc[0].conn) = << msgbuf[1] >>
    /\ tmxr_tqln(ldsc[0]) >= 1
    /\ TxQueued(ldsc[0])[1] = msgbuf[2]
    /\ ldsc[0].xmte = 0

\* FF FB 22 FF FB 03 FF FB 01 FF FB 00 FF FD 00
DefaultMantraBytes ==
    << 255, 251, 34, 255, 251, 3, 255, 251, 1, 255, 251, 0, 255, 253, 0 >>

\* C20: on every connection assigned to a line the first bytes written to
\* the socket are the mantra of the default build, in order, ahead of the
\* greeting and of replayed or new data.  (sim_write_sock's result for the
\* mantra is not looked at by tmxr_poll_conn; the socket, just accepted, is
\* taken to accept the fifteen bytes.)  A connection refused because all
\* lines are busy is assigned to no line and is sent BusyMsg only.
C20_MantraFirst ==
    /\ \A l \in Lines :
          (ldsc[l].conn # 0) => IsPrefix(DefaultMantraBytes, wire[ldsc[l].conn])
    /\ \A sk \in Socks :
          (wire[sk] # <<>> /\ ~IsPrefix(wire[sk], BusyMsg))
             => IsPrefix(DefaultMantraBytes, wire[sk])

\* C20 witness: on a buffered line a character stored before the connection
\* was replayed: the socket holds the mantra, then the greeting, then the
\* character.
C20_Witness ==
    /\ ldsc[0].conn # 0
    /\ ldsc[0].txbfd # 0
    /\ Len(puts[0]) = 1
    /\ puts[0][1].conn = 0
    /\ wire[ldsc[0].conn] = DefaultMantraBytes \o msgbuf \o << puts[0][1].c >>

(* ------------------------------------------------------------------ *)
(* Properties of tmxr_reset_ln and tmxr_close_master (Spec, SpecClose). *)
(* ------------------------------------------------------------------ *)

\* C21 (as claimed): a reset of a connected line leaves it with no
\* connection, Telnet state TNS_NORM, the receive pointers zero and the
\* counters rxcnt, txcnt and txdrp zero; the transmit pointers are zeroed
\* exactly when the line is not buffered, and a buffered line keeps its ring
\* (size, content and insert pointer).
C21_ResetState ==
    [][\A l \in Lines :
         (ldsc[l].conn # 0 /\ ldsc'[l].conn = 0) =>
            /\ ldsc'[l].tsta = TNS_NORM
            /\ ldsc'[l].rxbpi = 0 /\ ldsc'[l].rxbpr = 0
            /\ ldsc'[l].rxcnt = 0 /\ ldsc'[l].txcnt = 0 /\ ldsc'[l].txdrp = 0
            /\ (ldsc[l].txbfd = 0) => (ldsc'[l].txbpi = 0 /\ ldsc'[l].txbpr = 0)
            /\ (ldsc[l].txbfd # 0) =>
                  /\ ldsc'[l].txbsz = ldsc[l].txbsz
                  /\ ldsc'[l].txb = ldsc[l].txb
                  /\ ldsc'[l].txbpi = ldsc[l].txbpi]_vars

\* A step is a tmxr_close_master call when the listening socket goes away.
Closing == master # 0 /\ master' = 0

\* What socket sk received in the step.
Received(sk) == SubSeq(wire'[sk], Len(wire[sk]) + 1, Len(wire'[sk]))

RECURSIVE Expand(_, _)
Expand(ranges, seen) ==
    IF ranges = <<>> THEN <<>>
    ELSE LET new == {ln \in Head(ranges)[1]..Head(ranges)[2] : ln \notin seen}
         IN  Ascending(new) \o Expand(Tail(ranges), seen \cup new)

\* The order array a command on n lines asks for: the lines it lists, then
\* the others in ascending order.
ExplicitThenAscending(cmd, n) ==
    LET ls == Expand(cmd, {})
        sq == ls \o Ascending((0..(n - 1)) \ {ls[k] : k \in 1..Len(ls)})
    IN  [q \in 0..(n - 1) |-> sq[q + 1]]

\* The ranges of a command that are parsed: those up to the first range of
\* all lines, which ends the parsing.
Parsed(cmd, n) ==
    LET full == {k \in 1..Len(cmd) : cmd[k] = <<0, n - 1>>}
    IN  IF full = {} THEN cmd
        ELSE SubSeq(cmd, 1, CHOOSE k \in full : \A k2 \in full : k <= k2)

CoversAll(cmd, n) == \E k \in 1..Len(cmd) : cmd[k] = <<0, n - 1>>

\* A command is well formed when it has a range and every parsed range is
\* low <= high < n.
WellFormed(cmd, n) ==
    /\ cmd # <<>>
    /\ \A k \in 1..Len(Parsed(cmd, n)) : cmd[k][1] <= cmd[k][2] /\ cmd[k][2] <= n - 1

IsPermutation(order, n) ==
    /\ DOMAIN order = 0..(n - 1)
    /\ {order[q] : q \in 0..(n - 1)} = 0..(n - 1)

\* The example of the source: 1;5;2-4;7 on eight lines.
ExampleCommand == << <<1, 1>>, <<5, 5>>, <<2, 4>>, <<7, 7>> >>
ExampleOrder == << 1, 5, 2, 3, 4, 7, 0, 6 >>

\* C23: after a successful tmxr_set_lnorder the order array either starts
\* with -1 (a range of all lines was given) or is a permutation of the lines
\* that has the specified lines first, in the order given and without
\* repeats, and then the unspecified lines in ascending order; 1;5;2-4;7 on
\* eight lines gives 1,5,2,3,4,7,0,6.  The array of every reachable state is
\* of one of the two forms.
C23_OrderAfterSet ==
    /\ \A cmd \in OrderCommands :
          LET r == tmxr_set_lnorder(lnorder, lines, cmd)
          IN  (r.result = "OK") =>
                 IF CoversAll(cmd, lines)
                 THEN r.order[0] = 0 - 1
                 ELSE /\ r.order = ExplicitThenAscending(cmd, lines)
                      /\ IsPermutation(r.order, lines)
    /\ (DOMAIN lnorder # {}) => (lnorder[0] = 0 - 1 \/ IsPermutation(lnorder, lines))
    /\ LET r == tmxr_set_lnorder([q \in 0..7 |-> 0], 8, ExampleCommand)
       IN  r.result = "OK" /\ r.order = [q \in 0..7 |-> ExampleOrder[q + 1]]

\* C23 witness: on four lines the command 2-3;1 has set the order 2,3,1,0.
C23_Witness ==
    /\ lines = 4
    /\ DOMAIN lnorder # {}
    /\ lnorder = ExplicitThenAscending(<< <<2, 3>>, <<1, 1>> >>, 4)
    /\ lnorder = [q \in 0..3 |-> << 2, 3, 1, 0 >>[q + 1]]

\* C24: tmxr_set_lnorder succeeds exactly when the multiplexer has an order
\* array and the command is well formed; otherwise it returns an error
\* (SCPE_NXPAR with no array, SCPE_MISVAL with no value, SCPE_ARG or SCPE_SUB
\* for a bad range) and the order array is left exactly as it was.
C24_ErrorLeavesOrder ==
    \A cmd \in OrderCommands :
       LET r == tmxr_set_lnorder(lnorder, lines, cmd)
       IN  /\ (r.result = "OK") <=> (DOMAIN lnorder # {} /\ WellFormed(cmd, lines))
           /\ (DOMAIN lnorder = {}) => (r.result = "NXPAR")
           /\ (DOMAIN lnorder # {} /\ cmd = <<>>) => (r.result = "MISVAL")
           /\ (DOMAIN lnorder # {} /\ cmd # <<>> /\ ~WellFormed(cmd, lines))
                 => (r.result \in {"ARG", "SUB"})
           /\ (r.result # "OK") => (r.order = lnorder)

\* C24 witness: an order set by an earlier command (1,0,2,... on the lines)
\* is in place, and commands with a line past the last one, with a reversed
\* range and with no value fail on it and leave it.
C24_Witness ==
    /\ DOMAIN lnorder # {}
    /\ lnorder = ExplicitThenAscending(<< <<1, 1>> >>, lines)
    /\ tmxr_set_lnorder(lnorder, lines, << <<0, 0>>, <<lines, lines>> >>).result = "SUB"
    /\ tmxr_set_lnorder(lnorder, lines, << <<2, 1>> >>).result = "ARG"
    /\ tmxr_set_lnorder(lnorder, lines, <<>>).result = "MISVAL"
    /\ tmxr_set_lnorder(lnorder, lines, << <<0, 0>>, <<lines, lines>> >>).order = lnorder

(* ------------------------------------------------------------------ *)
(* Output conversion: SET CONSOLE PCHAR and sim_tt_outcvt.             *)
(* ------------------------------------------------------------------ *)

\* The masks given to SET CONSOLE PCHAR: the default, CR and LF only, LF
\* only, bell only, none, all of bits 0..30.
PcharValues == {sim_tt_pchar, 9216, 1024, 128, 0, 2147483647}

TtModes == {"7B", "7P", "UC", "8B"}

Bytes == 0..255

\* sim_set_pchar: a mask without CR and without LF is refused.
SetPchar(val) ==
    /\ tt' = IF Bit(val, 10) = 0 /\ Bit(val, 13) = 0
             THEN tt
             ELSE [tt EXCEPT !.pchar = val]
    /\ UNCHANGED << lines, ldsc, master, buffered, lnorder, ret, nextsock, sockopen,
                    wire, inq, peerout, ntok, puts, gets, logst, con >>

\* sim_tt_outcvt (c, mode)
OutCvt(c, md, ksr) ==
    /\ tt' = [tt EXCEPT !.c = c, !.mode = md, !.ksr = ksr, !.mask = tt.pchar,
                        !.out = sim_tt_outcvt(c, md, ksr, tt.pchar)]
    /\ UNCHANGED << lines, ldsc, master, buffered, lnorder, ret, nextsock, sockopen,
                    wire, inq, peerout, ntok, puts, gets, logst, con >>

InitCvt == InitWith({1}, {"none"})

\* The mask is set before the characters are written.
NextCvt ==
    \/ \E val \in PcharValues : tt.out = NotConverted /\ SetPchar(val)
    \/ \E c \in Bytes, md \in TtModes, ksr \in BOOLEAN : OutCvt(c, md, ksr)

SpecCvt == InitCvt /\ [][NextCvt]_vars

(* ------------------------------------------------------------------ *)
(* C30                                                                 *)
(* ------------------------------------------------------------------ *)

\* The conversion as the specification words it.
As7B(c) == IF c % 128 = 127 THEN Dropped ELSE c % 128

As7P(c, pchar) ==
    IF As7B(c) = Dropped THEN Dropped
    ELSE IF As7B(c) < 32 /\ Bit(pchar, As7B(c)) = 0 THEN Dropped
    ELSE As7B(c)

AsUC(c, ksr, pchar) ==
    IF As7P(c, pchar) = Dropped THEN Dropped
    ELSE IF ksr /\ ToUpper(As7P(c, pchar)) >= 96 THEN Dropped
    ELSE ToUpper(As7P(c, pchar))

\* C30: the output conversion of a byte c is: in 8B mode c unchanged; in 7B
\* mode c masked to 7 bits with 0x7F dropped; in 7P mode as 7B and a control
\* code below 32 is dropped unless its bit is set in pchar; in UC mode as 7P
\* with a-z mapped to A-Z and, with KSR, codes >= 0x60 dropped.
C30_OutputConversion ==
    tt.out # NotConverted =>
        tt.out = CASE tt.mode = "8B" -> tt.c
                   [] tt.mode = "7B" -> As7B(tt.c)
                   [] tt.mode = "7P" -> As7P(tt.c, tt.mask)
                   [] tt.mode = "UC" -> AsUC(tt.c, tt.ksr, tt.mask)

\* What the code does in every mode but 7B agrees with the claim; in 7B the
\* result is the low seven bits, 0x7F included.
C30_AllBut7B ==
    (tt.out # NotConverted /\ tt.mode # "7B") =>
        tt.out = CASE tt.mode = "8B" -> tt.c
                   [] tt.mode = "7P" -> As7P(tt.c, tt.mask)
                   [] tt.mode = "UC" -> AsUC(tt.c, tt.ksr, tt.mask)

(* ------------------------------------------------------------------ *)
(* SET CONSOLE LOG / NOLOG / DEBUG / NODEBUG.                          *)
(* ------------------------------------------------------------------ *)

\* The file names of the commands.
LogNames == {"LOG", "DEBUG", "STDOUT", "STDERR", "FILE"}

MuxUnchanged ==
    UNCHANGED << lines, ldsc, master, buffered, lnorder, ret, nextsock, sockopen,
                 wire, inq, peerout, ntok, puts, gets >>

\* A command is given while the program is in a defined state; a file is
\* opened by name at most MaxRef times.
LogCommand(name) ==
    /\ ~logst.uaf
    /\ name = "FILE" => logst.nref < MaxRef

\* sim_set_logon (flag, cptr)
SimSetLogon(name, opened) ==
    /\ LogCommand(name)
    /\ LET r == sim_set_logon(logst, name, opened)
       IN  logst' = [r.L EXCEPT !.st = r.st]
    /\ MuxUnchanged
    /\ UNCHANGED << con, tt >>

\* sim_set_logoff (flag, cptr)
SimSetLogoff ==
    /\ ~logst.uaf
    /\ logst' = [sim_set_logoff(logst) EXCEPT !.st = "OK"]
    /\ MuxUnchanged
    /\ UNCHANGED << con, tt >>

\* sim_set_debon (flag, cptr)
SimSetDebon(name, opened) ==
    /\ LogCommand(name)
    /\ LET r == sim_set_debon(logst, name, opened)
       IN  logst' = [r.L EXCEPT !.st = r.st]
    /\ MuxUnchanged
    /\ UNCHANGED << con, tt >>

\* sim_set_deboff (flag, cptr)
SimSetDeboff ==
    /\ ~logst.uaf
    /\ logst' = [sim_set_deboff(logst) EXCEPT !.st = "OK"]
    /\ MuxUnchanged
    /\ UNCHANGED << con, tt >>

InitLogRef == InitWith({1}, {"none"})

NextLogRef ==
    \/ \E name \in LogNames, opened \in BOOLEAN : SimSetLogon(name, opened)
    \/ SimSetLogoff
    \/ \E name \in LogNames, opened \in BOOLEAN : SimSetDebon(name, opened)
    \/ SimSetDeboff

SpecLogRef == InitLogRef /\ [][NextLogRef]_vars

(* ------------------------------------------------------------------ *)
(* C25                                                                 *)
(* ------------------------------------------------------------------ *)

\* C25: a sink opened on LOG or DEBUG is bound to the reference of the log
\* or of the debug output and counted in it; a close takes one from the
\* count and the file is closed only at zero: the reference of every open
\* sink is an object that is not freed, with a count of at least one.
C25_LiveReferences ==
    \A h \in Sinks :
        (Pf(logst, h) # NoFile /\ Pref(logst, h) # 0) =>
            /\ Pref(logst, h) \notin logst.freed
            /\ logst.refcount[Pref(logst, h)] >= 1

\* The same for the file: an open sink of a file opened by name never has a
\* closed file.
C25_FileOpen ==
    \A h \in Sinks : Pf(logst, h) > 0 => Pf(logst, h) \notin logst.freed

(* ------------------------------------------------------------------ *)
(* The console routines.  The console multiplexer has one line,        *)
(* sim_con_ldsc; its sockets take every write in full.                 *)
(* ------------------------------------------------------------------ *)

\* Op applied to the value of v: v is evaluated once, whatever the number of
\* places Op uses it in.
WithValue(Op(_), v) == CHOOSE y \in {Op(x) : x \in {v}} : TRUE

\* The console line and its sockets, as one value.
ConMux ==
    [ lp |-> ldsc[0], wire |-> wire, inq |-> inq, peerout |-> peerout,
      sockopen |-> sockopen, nextsock |-> nextsock ]

\* tmxr_poll_conn (&sim_con_tmxr).  acc says that sim_accept_conn gives a new
\* socket, early are the bytes its client has sent already; b is the buffer
\* size of the multiplexer.  The result is the state and the line number
\* returned (-1 for no connection).
con_poll_conn(m, b, acc, early) ==
    LET newsock == m.nextsock
    IN  IF ~acc THEN [m |-> m, val |-> 0 - 1]
        ELSE IF m.lp.conn # 0
        THEN [m   |-> [m EXCEPT !.wire[newsock] = BusyMsg, !.nextsock = newsock + 1],
              val |-> 0 - 1]
        ELSE WithValue(LAMBDA tx :
                 [m   |-> [m EXCEPT !.lp = [tx.lp EXCEPT !.txcnt = @ - Len(msgbuf)],
                                    !.wire[newsock] = mantra \o tx.out,
                                    !.inq[newsock] = early,
                                    !.peerout[newsock] = early,
                                    !.sockopen = @ \cup {newsock},
                                    !.nextsock = newsock + 1],
                  val |-> 0],
                 PollTxLine(ConnectLine(m.lp, newsock, b), FullWrite, FullWrite))

\* tmxr_poll_rx (&sim_con_tmxr).  err says that the read fails (the client
\* has closed the connection); a read that succeeds takes what the client
\* has sent, up to what was asked for.
con_poll_rx(m, err) ==
    LET lp == m.lp
        sk == lp.conn
        rd == (sk # 0) /\ (lp.rcve # 0) /\ Reads(lp)
        n  == IF rd /\ ~err THEN Min(ReadWant(lp), Len(m.inq[sk])) ELSE 0
    IN  IF sk = 0 THEN m
        ELSE WithValue(LAMBDA rx :
                 [m EXCEPT !.lp = RxRewind(rx.lp),
                           !.wire[sk] = @ \o rx.out,
                           !.inq[sk] = SubSeq(@, n + 1, Len(@)),
                           !.sockopen = IF rx.closed THEN @ \ {sk} ELSE @],
                 PollRxLine(lp, IF n > 0 THEN SubSeq(m.inq[sk], 1, n) ELSE <<>>,
                            rd /\ err, FullWrite, FullWrite))

\* tmxr_poll_tx (&sim_con_tmxr)
con_poll_tx(m) ==
    IF m.lp.conn = 0 THEN m
    ELSE WithValue(LAMBDA tx : [m EXCEPT !.lp = tx.lp, !.wire[m.lp.conn] = @ \o tx.out],
                   PollTxLine(m.lp, FullWrite, FullWrite))

\* sim_con_ldsc.rcve = 1 when tmxr_poll_conn gave a line.
con_accepted(pc) == IF pc.val >= 0 THEN [pc.m EXCEPT !.lp.rcve = 1] ELSE pc.m

\* The end of sim_poll_kbd: poll for input, return the character if any.
\* tmxr_getc_ln on the console line, and the value sim_poll_kbd returns for
\* it.
kbd_getc(m1) ==
    WithValue(LAMBDA g :
        [m  |-> [m1 EXCEPT !.lp = g.lp],
         rv |-> IF g.val.valid = 1
                THEN [st |-> "KFLAG", chr |-> g.val.chr, brk |-> g.val.brk]
                ELSE Rv("OK")],
        tmxr_getc_ln(m1.lp))

\* tmxr_poll_rx, then tmxr_getc_ln.
kbd_receive(m, err) == WithValue(kbd_getc, con_poll_rx(m, err))

\* A sim_poll_kbd that does not go on to receive when it has accepted a
\* client.  (A variant of sim_poll_kbd_locked.)
sim_poll_kbd_noreceive(m, b, acc, early, err) ==
    IF m.lp.conn = 0
    THEN IF m.lp.txbfd = 0 THEN [m |-> m, rv |-> Rv("LOST")]
         ELSE [m |-> con_accepted(con_poll_conn(m, b, acc, early)), rv |-> Rv("OK")]
    ELSE kbd_receive(m, err)

\* sim_poll_kbd from AUTO_LOCK on.
sim_poll_kbd_locked(m, b, acc, early, err) ==
    IF m.lp.conn = 0
    THEN IF m.lp.txbfd = 0 THEN [m |-> m, rv |-> Rv("LOST")]
         ELSE WithValue(LAMBDA pc :
                  IF pc.val >= 0 THEN kbd_receive(con_accepted(pc), err)
                  ELSE [m |-> pc.m, rv |-> Rv("OK")],
                  con_poll_conn(m, b, acc, early))
    ELSE kbd_receive(m, err)

\* sim_putchar (c) and sim_putchar_s (c) with a Telnet master; stall says
\* that it is sim_putchar_s, which looks at xmte and returns the status of
\* the put.  simlog says that sim_log is set.  The result is the state, the
\* status and whether c went to sim_log.
\* The end of sim_putchar and sim_putchar_s: the put (unless sim_putchar_s
\* finds the line stalled) and the poll of the transmitter.
sim_putchar_put(m1, logged, c, stall) ==
    LET held == stall /\ (m1.lp.xmte = 0)
    IN  WithValue(LAMBDA p :
            [m      |-> con_poll_tx(IF held THEN m1 ELSE [m1 EXCEPT !.lp = p.lp]),
             rv     |-> IF ~stall THEN Rv("OK")
                        ELSE IF held THEN Rv("STALL") ELSE Rv(p.st),
             logged |-> logged,
             put    |-> ~held],
            tmxr_putc_ln(m1.lp, c))

sim_putchar_telnet(m, b, simlog, c, acc, early, stall) ==
    LET logged == simlog /\ ~m.lp.txlog
    IN  IF (m.lp.conn = 0) /\ (m.lp.txbfd = 0)
        THEN [m |-> m, rv |-> Rv("LOST"), logged |-> logged, put |-> FALSE]
        ELSE WithValue(LAMBDA m1 : sim_putchar_put(m1, logged, c, stall),
                       IF m.lp.conn = 0
                       THEN con_accepted(con_poll_conn(m, b, acc, early))
                       ELSE m)

\* The multiplexer variables after a console routine.
ConMuxSet(m) ==
    /\ ldsc' = [ldsc EXCEPT ![0] = m.lp]
    /\ wire' = m.wire
    /\ inq' = m.inq
    /\ sockopen' = m.sockopen
    /\ peerout' = m.peerout
    /\ nextsock' = m.nextsock
    /\ UNCHANGED << lines, master, buffered, lnorder, ret, ntok, puts, gets >>

\* What sim_os_poll_kbd gives: nothing, the interrupt character, a character.
KbdKeys == {"none", "stop", "char"}

\* The character typed in the window.
WindowChar == 97

\* What a client has sent when its connection is accepted.
EarlyBytes == {<<>>, <<98>>}

\* A connection is accepted only while the master socket is open and the
\* model has a socket left.
Accepts(acc) == acc => (master # 0 /\ nextsock <= MaxSock)

\* A thread calls sim_poll_kbd (use_console); key is what sim_os_poll_kbd
\* will give it.
KbdCall(t, use_console, key) ==
    /\ con.pc[t] = "idle"
    /\ con' = [con EXCEPT !.pc[t] = "kbdcall", !.uc[t] = use_console, !.key[t] = key]
    /\ UNCHANGED << lines, ldsc, master, buffered, lnorder, ret, nextsock, sockopen,
                    wire, inq, peerout, ntok, puts, gets, logst, tt >>

\* sim_poll_kbd (use_console) up to AUTO_LOCK: the window is polled, the
\* master is tested, the lock is taken.
KbdEnter(t) ==
    /\ con.pc[t] = "kbdcall"
    /\ IF con.uc[t] /\ (con.key[t] = "stop" \/ master = 0)
       THEN con' = [con EXCEPT !.pc[t] = "idle", !.uc[t] = FALSE, !.key[t] = "none",
                               !.rv[t] =
                        CASE con.key[t] = "stop" -> Rv("STOP")
                          [] con.key[t] = "char" ->
                               [st |-> "KFLAG", chr |-> WindowChar, brk |-> 0]
                          [] OTHER -> Rv("OK")]
       ELSE IF master = 0
       THEN con' = [con EXCEPT !.pc[t] = "idle", !.uc[t] = FALSE, !.key[t] = "none",
                               !.rv[t] = Rv("OK")]
       ELSE /\ con.lock = 0
            /\ con' = [con EXCEPT !.lock = t, !.pc[t] = "kbd"]
    /\ UNCHANGED << lines, ldsc, master, buffered, lnorder, ret, nextsock, sockopen,
                    wire, inq, peerout, ntok, puts, gets, logst, tt >>

\* sim_poll_kbd from AUTO_LOCK to the return.
KbdBody(t, acc, early, err) ==
    /\ con.pc[t] = "kbd"
    /\ Accepts(acc)
    /\ \E r \in {sim_poll_kbd_locked(ConMux, buffered, acc, early, err)} :
           /\ ConMuxSet(r.m)
           /\ con' = [con EXCEPT !.lock = 0, !.pc[t] = "idle", !.uc[t] = FALSE,
                                 !.key[t] = "none", !.rv[t] = r.rv]
    /\ UNCHANGED << logst, tt >>

\* sim_putchar (c), sim_putchar_s (c): AUTO_LOCK.
PutEnter(t, c, stall) ==
    /\ con.pc[t] = "idle"
    /\ con.lock = 0
    /\ con' = [con EXCEPT !.lock = t, !.pc[t] = IF stall THEN "puts" ELSE "put",
                          !.arg[t] = c, !.n = @ + 1]
    /\ UNCHANGED << lines, ldsc, master, buffered, lnorder, ret, nextsock, sockopen,
                    wire, inq, peerout, ntok, puts, gets, logst, tt >>

\* sim_putchar (c), sim_putchar_s (c) from AUTO_LOCK to the return.
PutBody(t, acc, early) ==
    /\ con.pc[t] \in {"put", "puts"}
    /\ Accepts(acc)
    /\ LET c == con.arg[t]
           simlog == logst.sim_log # NoFile
       IN  IF master = 0
           THEN /\ con' = [con EXCEPT !.lock = 0, !.pc[t] = "idle", !.rv[t] = Rv("OK"),
                                      !.slog = IF simlog THEN Append(@, c) ELSE @,
                                      !.osout = Append(@, c)]
                /\ UNCHANGED << lines, ldsc, master, buffered, lnorder, ret, nextsock,
                                sockopen, wire, inq, peerout, ntok, puts, gets >>
           ELSE \E r \in {sim_putchar_telnet(ConMux, buffered, simlog, c, acc, early,
                                               con.pc[t] = "puts")} :
                    /\ ConMuxSet(r.m)
                    /\ con' = [con EXCEPT !.lock = 0, !.pc[t] = "idle", !.rv[t] = r.rv,
                                          !.slog = IF r.logged THEN Append(@, c) ELSE @]
    /\ UNCHANGED << logst, tt >>

\* The longest wait given to sim_check_console.
MaxSec == 11

\* A test that looks at the connection only.  (A variant of
\* sim_check_console_ready.)
sim_check_console_connected(lp) == lp.conn # 0

\* sim_con_ldsc.conn || sim_con_ldsc.txbfd: connected or buffered?
sim_check_console_ready(lp) == (lp.conn # 0) \/ (lp.txbfd # 0)

\* (i % 10) == 0: status every 10 seconds.
WaitMessage(i) == i % 10 = 0

\* A thread calls sim_check_console (sec).
ChkCall(t, sec) ==
    /\ con.pc[t] = "idle"
    /\ con' = [con EXCEPT !.pc[t] = "chkcall", !.arg[t] = sec, !.i[t] = 0, !.waits = 0]
    /\ UNCHANGED << lines, ldsc, master, buffered, lnorder, ret, nextsock, sockopen,
                    wire, inq, peerout, ntok, puts, gets, logst, tt >>

\* sim_check_console (sec) up to the loop: no Telnet master, or a line that
\* is connected or buffered after a poll of its input, returns SCPE_OK; else
\* the loop starts.  The console lock is not taken.
ChkEnter(t, err) ==
    /\ con.pc[t] = "chkcall"
    /\ IF master = 0
       THEN /\ con' = [con EXCEPT !.pc[t] = "idle", !.rv[t] = Rv("OK")]
            /\ UNCHANGED << lines, ldsc, master, buffered, lnorder, ret, nextsock,
                            sockopen, wire, inq, peerout, ntok, puts, gets >>
       ELSE LET polled == sim_check_console_ready(ldsc[0])
            IN  \E m \in {IF polled THEN con_poll_rx(ConMux, err) ELSE ConMux} :
                /\ ConMuxSet(m)
                /\ IF polled /\ sim_check_console_ready(m.lp)
                   THEN con' = [con EXCEPT !.pc[t] = "idle", !.rv[t] = Rv("OK")]
                   ELSE con' = [con EXCEPT !.pc[t] = "chk"]
    /\ UNCHANGED << logst, tt >>

\* One turn of the loop of sim_check_console, or its end: poll for a
\* connection, look for the interrupt character (key) and for stop_cpus
\* (stop), print the message, sleep one second.
ChkIter(t, acc, early, key, stop) ==
    /\ con.pc[t] = "chk"
    /\ Accepts(acc)
    /\ IF con.i[t] >= con.arg[t]
       THEN /\ con' = [con EXCEPT !.pc[t] = "idle", !.rv[t] = Rv("TTMO")]
            /\ UNCHANGED << lines, ldsc, master, buffered, lnorder, ret, nextsock,
                            sockopen, wire, inq, peerout, ntok, puts, gets >>
       ELSE \E pc \in {con_poll_conn(ConMux, buffered, acc, early)} :
                /\ ConMuxSet(con_accepted(pc))
                /\ con' = IF pc.val >= 0
                          THEN [con EXCEPT !.pc[t] = "idle", !.rv[t] = Rv("OK")]
                          ELSE IF key = "stop" \/ stop
                          THEN [con EXCEPT !.pc[t] = "idle", !.rv[t] = Rv("STOP")]
                          ELSE [con EXCEPT !.i[t] = @ + 1,
                                           !.waits = IF WaitMessage(con.i[t]) THEN @ + 1 ELSE @]
    /\ UNCHANGED << logst, tt >>

\* The characters given to the console.
ConChars == {65}

\* The console routines called from two threads, with and without a Telnet
\* master, buffered and unbuffered.
InitCon == InitWith({1}, {"none"})

NextCon ==
    \/ OpenMasterPort
    \/ \E size \in {GreetLen + 2} : OpenMasterBuffered(size)
    \/ \E t \in Threads, uc \in BOOLEAN, key \in {"none", "stop"} : KbdCall(t, uc, key)
    \/ \E t \in Threads : KbdEnter(t)
    \/ \E t \in Threads, acc \in BOOLEAN : KbdBody(t, acc, <<>>, FALSE)
    \/ \E t \in Threads, c \in ConChars, stall \in BOOLEAN :
          con.n < MaxPut /\ PutEnter(t, c, stall)
    \/ \E t \in Threads, acc \in BOOLEAN : PutBody(t, acc, <<>>)
    \/ \E t \in Threads, sec \in {1} : ChkCall(t, sec)
    \/ \E t \in Threads : ChkEnter(t, FALSE)
    \/ \E t \in Threads, acc \in BOOLEAN : ChkIter(t, acc, <<>>, "none", FALSE)

SpecCon == InitCon /\ [][NextCon]_vars

(* ------------------------------------------------------------------ *)
(* C26                                                                 *)
(* ------------------------------------------------------------------ *)

\* The threads that are inside a console routine, working on the console
\* line.
Working == {"kbd", "put", "puts", "chk"}

Inside == {t \in Threads : con.pc[t] \in Working}

\* C26: every operation on the console line is made while holding the
\* console lock: a thread inside a console routine (sim_poll_kbd,
\* sim_putchar, sim_putchar_s, sim_check_console) holds the lock, and no two
\* threads are inside such routines at the same time.
C26_ConsoleLock ==
    /\ \A t \in Threads : con.pc[t] \in Working => con.lock = t
    /\ Cardinality(Inside) <= 1

\* The first part alone and the second part alone.
C26_HoldsLock == \A t \in Threads : con.pc[t] \in Working => con.lock = t

C26_OneInside == Cardinality(Inside) <= 1

\* The three routines that take the lock exclude each other.
C26_LockedRoutinesExclude ==
    Cardinality({t \in Threads : con.pc[t] \in {"kbd", "put", "puts"}}) <= 1

(* ------------------------------------------------------------------ *)
(* sim_poll_kbd on a console with a client that connects, sends and    *)
(* disconnects.                                                        *)
(* ------------------------------------------------------------------ *)

\* What the client of the console sends.
KbdTokens == { <<65>>, <<TN_IAC, TN_BRK>> }

\* The thread that runs the console.
ConThread == 1

NextKbd ==
    \/ OpenMasterPort
    \/ \E size \in {GreetLen + 2} : OpenMasterBuffered(size)
    \/ \E uc \in BOOLEAN, key \in KbdKeys : KbdCall(ConThread, uc, key)
    \/ KbdEnter(ConThread)
    \/ \E acc \in BOOLEAN, early \in EarlyBytes, err \in BOOLEAN :
          (acc => nextsock <= MaxConn + 1) /\ KbdBody(ConThread, acc, early, err)
    \/ ChkCall(ConThread, 1)
    \/ ChkEnter(ConThread, FALSE)
    \/ \E acc \in BOOLEAN :
          (acc => nextsock <= MaxConn + 1) /\ ChkIter(ConThread, acc, <<>>, "none", FALSE)
    \/ \E sk \in Socks : \E tok \in KbdTokens : ntok < MaxTok - 1 /\ PeerSend(sk, tok)

SpecKbd == InitCon /\ [][NextKbd]_vars

(* ------------------------------------------------------------------ *)
(* C27                                                                 *)
(* ------------------------------------------------------------------ *)

\* A step in which sim_poll_kbd of thread t returns.
KbdReturns(t) == con.pc[t] \in {"kbdcall", "kbd"} /\ con'.pc[t] = "idle"

\* The step is a poll of the input of line 0 followed by a read of one
\* character of line 0, whose result is returned.
PollRxThenGetc(t) ==
    \E err \in BOOLEAN :
        LET m == con_poll_rx(ConMux, err)
            g == tmxr_getc_ln(m.lp)
        IN  /\ ldsc'[0] = g.lp
            /\ con'.rv[t] = IF g.val.valid = 1
                            THEN [st |-> "KFLAG", chr |-> g.val.chr, brk |-> g.val.brk]
                            ELSE Rv("OK")

\* C27 as claimed: with a Telnet master open, sim_poll_kbd returns lost when
\* line 0 has no client and is not buffered; when line 0 has no client and is
\* buffered it attempts tmxr_poll_conn and returns empty; when a client is
\* connected it runs tmxr_poll_rx and returns the tmxr_getc_ln result.
C27_PollKbdAsClaimed ==
    [][\A t \in Threads :
          (KbdReturns(t) /\ master # 0) =>
              IF ldsc[0].conn = 0
              THEN IF ldsc[0].txbfd = 0
                   THEN con'.rv[t] = Rv("LOST")
                   ELSE con'.rv[t] = Rv("OK")
              ELSE PollRxThenGetc(t)]_vars

\* C27: with a Telnet master open, sim_poll_kbd returns stop before anything
\* else when use_console is set and the window gave the interrupt character.
\* Otherwise it returns lost when line 0 has no client and is not buffered;
\* when line 0 has no client and is buffered it attempts tmxr_poll_conn and
\* returns empty if no client was accepted, and with a client accepted it
\* goes on to tmxr_poll_rx and tmxr_getc_ln, so that it returns the first
\* character the client has sent already; when a client is connected it runs
\* tmxr_poll_rx and returns the tmxr_getc_ln result.
C27_PollKbd ==
    [][\A t \in Threads :
          (KbdReturns(t) /\ master # 0) =>
              IF con.pc[t] = "kbdcall"
              THEN con.uc[t] /\ con.key[t] = "stop" /\ con'.rv[t] = Rv("STOP")
                   /\ ldsc' = ldsc
              ELSE /\ ~(con.uc[t] /\ con.key[t] = "stop")
                   /\ IF ldsc[0].conn = 0
                      THEN IF ldsc[0].txbfd = 0
                           THEN con'.rv[t] = Rv("LOST") /\ ldsc' = ldsc
                           ELSE IF nextsock' = nextsock
                           THEN con'.rv[t] = Rv("OK") /\ ldsc' = ldsc
                           ELSE /\ con'.rv[t].st \in {"OK", "KFLAG"}
                                /\ (peerout'[nextsock] # <<>> /\ nextsock \in sockopen')
                                      <=> con'.rv[t].st = "KFLAG"
                                /\ con'.rv[t].st = "KFLAG" =>
                                      con'.rv[t].chr = peerout'[nextsock][1]
                      ELSE PollRxThenGetc(t)]_vars

\* sim_poll_kbd has accepted a client on the buffered console and returned
\* the character the client had sent.
C27_Witness ==
    /\ con.pc[ConThread] = "idle"
    /\ con.rv[ConThread] = [st |-> "KFLAG", chr |-> 98, brk |-> 0]
    /\ ldsc[0].txbfd # 0
    /\ ldsc[0].conn # 0

\* sim_poll_kbd has returned the character of a connected client.
C27_WitnessConnected ==
    /\ con.pc[ConThread] = "idle"
    /\ con.rv[ConThread] = [st |-> "KFLAG", chr |-> 65, brk |-> 0]
    /\ ldsc[0].txbfd = 0

(* ------------------------------------------------------------------ *)
(* sim_putchar and sim_putchar_s with a simulator log and a line log.  *)
(* ------------------------------------------------------------------ *)

NextPut ==
    \/ OpenMasterPort
    \/ \E size \in {GreetLen + 2} : OpenMasterBuffered(size)
    \/ \E opened \in BOOLEAN : SetLog(0, opened)
    \/ SetNoLog(0)
    \/ logst.sim_log = NoFile /\ SimSetLogon("FILE", TRUE)
    \/ SimSetLogoff
    \/ \E c \in ConChars, stall \in BOOLEAN :
          con.n < MaxPut /\ PutEnter(ConThread, c, stall)
    \/ \E acc \in BOOLEAN :
          (acc => nextsock <= MaxConn + 1) /\ PutBody(ConThread, acc, <<>>)
    \/ ChkCall(ConThread, 1)
    \/ ChkEnter(ConThread, FALSE)
    \/ \E acc \in BOOLEAN :
          (acc => nextsock <= MaxConn + 1) /\ ChkIter(ConThread, acc, <<>>, "none", FALSE)

SpecPut == InitCon /\ [][NextPut]_vars

(* ------------------------------------------------------------------ *)
(* C28                                                                 *)
(* ------------------------------------------------------------------ *)

\* A step in which sim_putchar of thread t returns.
PutReturns(t) == con.pc[t] = "put" /\ con'.pc[t] = "idle"

\* The step hands c to tmxr_putc_ln on line 0 and then polls the
\* transmitter, after a tmxr_poll_conn when the line is unconnected and
\* buffered.
PutcThenPollTx(c) ==
    \E acc \in BOOLEAN :
        LET m1 == IF (ldsc[0].conn = 0) /\ (ldsc[0].txbfd # 0)
                  THEN con_accepted(con_poll_conn(ConMux, buffered, acc, <<>>))
                  ELSE ConMux
            p  == tmxr_putc_ln(m1.lp, c)
            m2 == con_poll_tx([m1 EXCEPT !.lp = p.lp])
        IN  ldsc'[0] = m2.lp /\ wire' = m2.wire

\* C28: with a Telnet master open, sim_putchar (c) in every connection and
\* buffering state writes c to the simulator log when that log is set and
\* line 0 has no line log, attempts tmxr_poll_conn when line 0 is unconnected
\* and buffered, and then hands c to tmxr_putc_ln on line 0 followed by
\* tmxr_poll_tx.
C28_PutChar ==
    [][\A t \in Threads :
          (PutReturns(t) /\ master # 0) =>
              /\ con'.slog = IF logst.sim_log # NoFile /\ ~ldsc[0].txlog
                             THEN Append(con.slog, con.arg[t])
                             ELSE con.slog
              /\ PutcThenPollTx(con.arg[t])]_vars

\* The same for every state but the unconnected, unbuffered one, where the
\* code returns SCPE_LOST and leaves the line as it is.
C28_PutCharButLost ==
    [][\A t \in Threads :
          (PutReturns(t) /\ master # 0) =>
              /\ con'.slog = IF logst.sim_log # NoFile /\ ~ldsc[0].txlog
                             THEN Append(con.slog, con.arg[t])
                             ELSE con.slog
              /\ IF (ldsc[0].conn = 0) /\ (ldsc[0].txbfd = 0)
                 THEN con'.rv[t] = Rv("LOST") /\ ldsc' = ldsc
                 ELSE PutcThenPollTx(con.arg[t]) /\ con'.rv[t] = Rv("OK")]_vars

\* A character given to sim_putchar is in one of the logs when a log is set:
\* in the line log, or else in the simulator log.
C28_NoCharLost ==
    [][\A t \in Threads :
          (PutReturns(t) /\ master # 0 /\ (ldsc[0].txlog \/ logst.sim_log # NoFile)) =>
              \/ con'.slog = Append(con.slog, con.arg[t])
              \/ ldsc'[0].txlogf = Append(ldsc[0].txlogf, con.arg[t])]_vars

(* ------------------------------------------------------------------ *)
(* sim_check_console with clients that connect and disconnect.         *)
(* ------------------------------------------------------------------ *)

\* The waits given to sim_check_console.
ChkSecs == {0 - 1, 0, 1, MaxSec}

\* A step of the thread that is inside sim_check_console.
ChkStep ==
    \/ \E err \in BOOLEAN : ChkEnter(ConThread, err)
    \/ \E acc \in BOOLEAN, key \in {"none", "stop"}, stop \in BOOLEAN :
          (acc => nextsock <= MaxConn + 1) /\ ChkIter(ConThread, acc, <<>>, key, stop)

NextChk ==
    \/ OpenMasterPort
    \/ \E size \in {GreetLen + 2} : OpenMasterBuffered(size)
    \/ \E sec \in ChkSecs : ChkCall(ConThread, sec)
    \/ ChkStep

\* The thread that called sim_check_console keeps running: its sleeps end.
SpecChk == InitCon /\ [][NextChk]_vars /\ WF_vars(ChkStep)

(* ------------------------------------------------------------------ *)
(* C29                                                                 *)
(* ------------------------------------------------------------------ *)

\* The step in which sim_check_console of thread t makes its first tests.
ChkEnters(t) == con.pc[t] = "chkcall" /\ con'.pc[t] # "chkcall"

\* A step of the loop of sim_check_console of thread t.
ChkLoops(t) == con.pc[t] = "chk" /\ con' # con

\* The loop: with the budget exhausted the call returns timeout; otherwise a
\* client accepted gives ok, and else the interrupt character or stop_cpus
\* gives stop, and else the turn is counted, with a message on the turns 0,
\* 10, 20, ...
ChkLoopStep(t) ==
    IF con.i[t] >= con.arg[t]
    THEN con'.pc[t] = "idle" /\ con'.rv[t] = Rv("TTMO") /\ ldsc' = ldsc
    ELSE IF ldsc'[0].conn # 0
    THEN con'.pc[t] = "idle" /\ con'.rv[t] = Rv("OK") /\ ldsc'[0].rcve = 1
    ELSE \/ con'.pc[t] = "idle" /\ con'.rv[t] = Rv("STOP")
         \/ /\ con'.pc[t] = "chk"
            /\ con'.i[t] = con.i[t] + 1
            /\ con'.waits = con.waits + (IF con.i[t] % 10 = 0 THEN 1 ELSE 0)

\* In the loop the turns made are within the budget and one message was
\* printed for every ten turns begun.
ChkLoopCounts(t) ==
    con.pc[t] = "chk" =>
        /\ con.i[t] >= 0
        /\ con.i[t] <= IF con.arg[t] > 0 THEN con.arg[t] ELSE 0
        /\ con.waits = (con.i[t] + 9) \div 10
        /\ ldsc[0].conn = 0

\* C29 as claimed: sim_check_console returns ok at once when no Telnet
\* master is open or the console line is connected or buffered, and
\* otherwise starts to wait.
C29_CheckConsoleAsClaimed ==
    [][\A t \in Threads :
          ChkEnters(t) =>
              IF (master = 0) \/ (ldsc[0].conn # 0) \/ (ldsc[0].txbfd # 0)
              THEN con'.pc[t] = "idle" /\ con'.rv[t] = Rv("OK")
              ELSE con'.pc[t] = "chk"]_vars

\* C29: sim_check_console (sec) always returns.  It returns ok at once when
\* no Telnet master is open; when the console line is connected or buffered
\* it polls the input of the line and returns ok if the line is still
\* connected or buffered after that; otherwise (no client and unbuffered, or
\* the poll found the connection closed) it polls for a connection once per
\* second for at most sec turns, returning ok as soon as a client is
\* accepted, stop when the interrupt character or stop_cpus is seen, timeout
\* when the budget is exhausted, and printing the message on every tenth
\* turn.
C29_CheckConsole ==
    /\ [][\A t \in Threads :
            /\ ChkEnters(t) =>
                  IF master = 0
                  THEN con'.pc[t] = "idle" /\ con'.rv[t] = Rv("OK") /\ ldsc' = ldsc
                  ELSE IF (ldsc[0].conn # 0) \/ (ldsc[0].txbfd # 0)
                  THEN /\ \E err \in BOOLEAN : ldsc'[0] = con_poll_rx(ConMux, err).lp
                       /\ IF (ldsc'[0].conn # 0) \/ (ldsc'[0].txbfd # 0)
                          THEN con'.pc[t] = "idle" /\ con'.rv[t] = Rv("OK")
                          ELSE con'.pc[t] = "chk"
                  ELSE con'.pc[t] = "chk" /\ ldsc' = ldsc
            /\ ChkLoops(t) => ChkLoopStep(t)]_vars
    /\ [](\A t \in Threads : ChkLoopCounts(t))
    /\ \A t \in Threads : (con.pc[t] \in {"chkcall", "chk"}) ~> (con.pc[t] = "idle")

\* sim_check_console found the connection of the unbuffered console closed,
\* waited MaxSec seconds, printed the message twice and timed out.
C29_Witness ==
    /\ con.pc[ConThread] = "idle"
    /\ con.rv[ConThread] = Rv("TTMO")
    /\ con.waits = 2
    /\ nextsock > 1
    /\ ldsc[0].txbfd = 0

(* ------------------------------------------------------------------ *)
(* The Telnet receiver, byte by byte (C31, C32, C36, C37).             *)
(* ------------------------------------------------------------------ *)

\* What a receiver has made of a stream: the entries for the device (a
\* character and a break mark each), the Telnet state, and whether the pad
\* after a CR is removed.  A fresh line is in state NORM and removes no pad.
TelnetStart == [out |-> <<>>, sta |-> TNS_NORM, strip |-> FALSE]

\* A data entry and the break entry.
DataEntry(b) == [chr |-> b, brk |-> 0]
BreakEntry == [chr |-> 0, brk |-> 1]

\* The Telnet commands of two bytes, and the ones that take an option byte.
SimpleCommands == {TN_GA, TN_EL, TN_EC, TN_AYT, TN_AO, TN_IP, TN_NOP, TN_SB, TN_DATAMK, TN_SE}
OptionCommands == {TN_WILL, TN_WONT, TN_DO, TN_DONT}

\* Byte b in state NORM: an IAC opens a sequence, anything else is data, and
\* a CR waits for its pad while pads are removed.
TelnetNorm(st, b) ==
    IF b = TN_IAC THEN [st EXCEPT !.sta = TNS_IAC]
    ELSE [st EXCEPT !.out = Append(@, DataEntry(b)),
                    !.sta = IF (b = TN_CR) /\ st.strip THEN TNS_CRPAD ELSE TNS_NORM]

\* Byte b in any state.  again says what state CRPAD does with a byte that
\* is no pad: TRUE, the byte is examined as in state NORM; FALSE, the byte
\* is data whatever it is.
TelnetFeed(st, b, again) ==
    CASE st.sta = TNS_NORM -> TelnetNorm(st, b)
      [] st.sta = TNS_IAC ->
            IF b = TN_IAC THEN [st EXCEPT !.out = Append(@, DataEntry(TN_IAC)), !.sta = TNS_NORM]
            ELSE IF b = TN_BRK THEN [st EXCEPT !.out = Append(@, BreakEntry), !.sta = TNS_NORM]
            ELSE IF b = TN_WILL THEN [st EXCEPT !.sta = TNS_WILL]
            ELSE IF b = TN_WONT THEN [st EXCEPT !.sta = TNS_WONT]
            ELSE IF b = TN_DO THEN [st EXCEPT !.sta = TNS_DO]
            ELSE IF b = TN_DONT THEN [st EXCEPT !.sta = TNS_DONT]
            ELSE IF b \in SimpleCommands THEN [st EXCEPT !.sta = TNS_NORM]
            ELSE st
      [] st.sta = TNS_WILL ->
            [st EXCEPT !.sta = TNS_NORM, !.strip = IF b = TN_BIN THEN FALSE ELSE @]
      [] st.sta = TNS_WONT ->
            [st EXCEPT !.sta = TNS_NORM, !.strip = IF b = TN_BIN THEN TRUE ELSE @]
      [] st.sta = TNS_CRPAD ->
            IF b \in {TN_LF, TN_NUL} THEN [st EXCEPT !.sta = TNS_NORM]
            ELSE IF again THEN TelnetNorm([st EXCEPT !.sta = TNS_NORM], b)
            ELSE [st EXCEPT !.out = Append(@, DataEntry(b)), !.sta = TNS_NORM]
      [] OTHER -> [st EXCEPT !.sta = TNS_NORM]

\* The receiver after the stream s, started in st.
RECURSIVE TelnetRun(_, _, _)
TelnetRun(s, st, again) ==
    IF s = <<>> THEN st ELSE TelnetRun(Tail(s), TelnetFeed(st, s[1], again), again)

\* What tmxr_poll_rx has read from the peer of line l so far.
ReadSoFar(l) ==
    LET sk == ldsc[l].conn
    IN  SubSeq(peerout[sk], 1, Len(peerout[sk]) - Len(inq[sk]))

\* Line l agrees with the receiver R: same state, same pad removal, and
\* tmxr_getc_ln has returned the entries of R in order, all of them once the
\* buffer is empty.
AgreesWith(l, R) ==
    /\ ldsc[l].tsta = R.sta
    /\ (ldsc[l].dstb # 0) = R.strip
    /\ IsPrefix(gets[l], R.out)
    /\ (ldsc[l].rxbpi = ldsc[l].rxbpr) => (gets[l] = R.out)

(* ------------------------------------------------------------------ *)
(* C31: state CRPAD (SpecPad).                                         *)
(* ------------------------------------------------------------------ *)

\* What the peer sends, one item at a time: IAC WONT BIN and a CR (pads are
\* removed from here on, and the CR waits for its pad), then single bytes:
\* IAC, BRK, CR, LF, NUL and a letter.
PadTokens ==
    { <<TN_IAC, TN_WONT, TN_BIN, TN_CR>>, <<TN_IAC>>, <<TN_BRK>>, <<TN_CR>>,
      <<TN_LF>>, <<TN_NUL>>, <<65>> }

\* A single-line multiplexer with one client that connects and sends, and a
\* device that reads.
NextPad ==
    \/ OpenMasterPort
    \/ nextsock = 1 /\ PollConn(FullWrite, FullWrite)
    \/ \E sk \in Socks : \E tok \in PadTokens : ntok < MaxTok /\ PeerSend(sk, tok)
    \/ \E rd \in ReadResults : PollRx(rd, FullWrite, FullWrite)
    \/ \E l \in Lines : GetcLn(l)

SpecPad == Init /\ [][NextPad]_vars

\* C31 (as claimed): in state CRPAD a byte other than LF or NUL is kept as a
\* data byte and the state becomes NORM, whatever the byte is (IAC and CR
\* included); an LF or a NUL is dropped and the state becomes NORM.
C31_CrPadKeepsAnyByte ==
    \A l \in Lines :
       (ldsc[l].conn # 0) => AgreesWith(l, TelnetRun(ReadSoFar(l), TelnetStart, FALSE))

\* C31 (amended): in state CRPAD an LF or a NUL is dropped and the state
\* becomes NORM; any other byte is handled as state NORM handles it: a data
\* byte is kept and the state becomes NORM, a CR is kept and the state is
\* CRPAD again, an IAC is removed and the state becomes IAC.
C31_CrPadExaminesAgain ==
    \A l \in Lines :
       (ldsc[l].conn # 0) => AgreesWith(l, TelnetRun(ReadSoFar(l), TelnetStart, TRUE))

\* C31 witness: the peer sent IAC WONT BIN, CR, IAC, BRK and the device has
\* read CR and a break: the IAC after the CR opened a sequence.
C31_Witness ==
    /\ Consumed(0)
    /\ peerout[ldsc[0].conn] = <<TN_IAC, TN_WONT, TN_BIN, TN_CR, TN_IAC, TN_BRK>>
    /\ gets[0] = << DataEntry(TN_CR), BreakEntry >>

(* ------------------------------------------------------------------ *)
(* C32: complete Telnet commands (SpecCmd).                            *)
(* ------------------------------------------------------------------ *)

\* The option bytes the peer uses with command c: an option code and, with
\* DO, a byte that is an IAC.
CmdOptions(c) == IF c = TN_DO THEN {TN_SGA, TN_IAC} ELSE {TN_SGA}

\* The complete commands: IAC, WILL, WONT, DO or DONT and an option byte;
\* IAC and one of the two-byte commands.
CommandTokens ==
    UNION {{<<TN_IAC, c, o>> : o \in CmdOptions(c)} : c \in OptionCommands}
       \cup {<<TN_IAC, c>> : c \in SimpleCommands}

\* The data bytes of the peer: letters, each sent once (A, B, C, ...), so
\* that the place of every byte is recognisable.
DataBytes == 65..(65 + MaxTok)

\* The data bytes of a stream, in order.
DataOf(s) == SelectSeq(s, LAMBDA b : b \in DataBytes)

\* The stream s ends where a command or a data byte ends.
RECURSIVE Complete(_)
Complete(s) ==
    IF s = <<>> THEN TRUE
    ELSE IF s[1] # TN_IAC THEN Complete(Tail(s))
    ELSE IF Len(s) = 1 THEN FALSE
    ELSE IF s[2] \in SimpleCommands THEN Complete(SubSeq(s, 3, Len(s)))
    ELSE (Len(s) >= 3) /\ Complete(SubSeq(s, 4, Len(s)))

\* The most commands the peer sends on one connection.
MaxCmd == MaxPut

\* The peer sends its next letter, or a command.
CmdSend(sk) ==
    \/ PeerSend(sk, <<65 + Len(DataOf(peerout[sk]))>>)
    \/ \E tok \in CommandTokens :
          /\ ntok - Len(DataOf(peerout[sk])) < MaxCmd
          /\ PeerSend(sk, tok)

\* A single-line multiplexer with one client that connects and sends letters
\* and commands, and a device that reads.
NextCmd ==
    \/ OpenMasterPort
    \/ nextsock = 1 /\ PollConn(FullWrite, FullWrite)
    \/ \E sk \in Socks : ntok < MaxTok /\ CmdSend(sk)
    \/ \E rd \in ReadResults : PollRx(rd, FullWrite, FullWrite)
    \/ \E l \in Lines : GetcLn(l)

SpecCmd == Init /\ [][NextCmd]_vars

\* C32: of a stream of data bytes and complete Telnet commands (IAC, WILL,
\* WONT, DO or DONT and an option byte; IAC and one of GA, EL, EC, AYT, AO,
\* IP, NOP, SB, DATAMK, SE) the device gets the data bytes, all of them,
\* unchanged, in order and without a break mark, and nothing of a command;
\* where a command is complete the filter is in state NORM.
C32_CommandsRemoved ==
    \A l \in Lines :
       (ldsc[l].conn # 0) =>
          /\ IsPrefix(Chars(gets[l]), DataOf(ReadSoFar(l)))
          /\ \A k \in 1..Len(gets[l]) : gets[l][k].brk = 0
          /\ (ldsc[l].rxbpi = ldsc[l].rxbpr) => (Chars(gets[l]) = DataOf(ReadSoFar(l)))
          /\ Complete(ReadSoFar(l)) => (ldsc[l].tsta = TNS_NORM)

\* C32 witness: the peer sent A, IAC DO IAC, B and the device has read A, B.
C32_Witness ==
    /\ Consumed(0)
    /\ peerout[ldsc[0].conn] = <<65, TN_IAC, TN_DO, TN_IAC, 66>>
    /\ Chars(gets[0]) = <<65, 66>>

(* ------------------------------------------------------------------ *)
(* C35: a put that stalls (SpecStall).                                 *)
(* ------------------------------------------------------------------ *)

\* A single-line unbuffered multiplexer with a line log that is attached and
\* detached, a device that writes until the ring is full and beyond, and a
\* socket that takes all, part or nothing of what tmxr_poll_tx writes to it.
NextStall ==
    \/ OpenMasterPort
    \/ \E l \in Lines : SetLog(l, TRUE)
    \/ \E l \in Lines : SetNoLog(l)
    \/ nextsock = 1 /\ PollConn(FullWrite, FullWrite)
    \/ \E r1 \in WriteResults : PollTx(r1, FullWrite)
    \/ \E l \in Lines : \E c \in PutBytes(l) : Len(puts[l]) <= FillPuts /\ PutcLn(l, c)
    \/ \E l \in Lines : ResetLn(l, FullWrite, FullWrite)

SpecStall == Init /\ [][NextStall]_vars

\* C35: a tmxr_putc_ln that returns SCPE_STALL leaves the transmit ring and
\* both of its pointers as they were and sends nothing: of the line only the
\* drop count (one more) and the transmit enable (cleared) change, and a
\* line log, if one is attached, gets the character as it gets every
\* character put.
C35_StallLeavesRing ==
    [][\A l \in Lines :
         (Putting(l) /\ LastPut(l).st = "STALL") =>
            /\ ldsc'[l].txb = ldsc[l].txb
            /\ ldsc'[l].txbpi = ldsc[l].txbpi
            /\ ldsc'[l].txbpr = ldsc[l].txbpr
            /\ ldsc'[l] = [ldsc[l] EXCEPT
                             !.txdrp = @ + 1,
                             !.xmte = 0,
                             !.txlogf = IF ldsc[l].txlog THEN Append(@, LastPut(l).c) ELSE @]
            /\ wire' = wire]_vars

\* C35 witness: the last put on connected line 0 stalled on a ring that
\* holds all it can, the transmit enable is off, and the line log has the
\* character.
C35_Witness ==
    /\ ldsc[0].conn # 0
    /\ puts[0] # <<>>
    /\ puts[0][Len(puts[0])].st = "STALL"
    /\ tmxr_tqln(ldsc[0]) = ldsc[0].txbsz - 1
    /\ ldsc[0].xmte = 0
    /\ ldsc[0].txdrp > 0
    /\ ldsc[0].txlog
    /\ ldsc[0].txlogf # <<>>
    /\ ldsc[0].txlogf[Len(ldsc[0].txlogf)] = puts[0][Len(puts[0])].c

(* ------------------------------------------------------------------ *)
(* C38: the transmit enable comes back (SpecUnbuf).                    *)
(* ------------------------------------------------------------------ *)

\* A step is a tmxr_poll_tx.
PollTxStep == \E r1, r2 \in WriteResults : PollTx(r1, r2)

\* C38: a line whose transmit enable is off (tmxr_putc_ln cleared it) gets
\* it back only from a tmxr_poll_tx that leaves the line's ring empty, from
\* a reset of the line, from a new connection on it, or from
\* tmxr_open_master; a tmxr_poll_tx that leaves bytes in the ring leaves the
\* enable off.
C38_EnableOnlyWhenDrained ==
    [][\A l \in Lines :
         /\ (ldsc[l].xmte = 0 /\ ldsc'[l].xmte = 1) =>
               \/ PollTxStep /\ ldsc[l].conn # 0 /\ tmxr_tqln(ldsc'[l]) = 0
               \/ ldsc[l].conn # 0 /\ ldsc'[l].conn = 0
               \/ ldsc[l].conn = 0 /\ ldsc'[l].conn # 0
               \/ master = 0 /\ master' = 1
         /\ (ldsc[l].xmte = 0 /\ PollTxStep /\ tmxr_tqln(ldsc'[l]) # 0) =>
               ldsc'[l].xmte = 0]_vars

\* C38 witness: a put on line 0 stalled, and on the same connection the
\* ring is empty again, all of its bytes are on the wire, and the transmit
\* enable is on.
C38_Witness ==
    /\ ldsc[0].conn # 0
    /\ \E k \in 1..Len(puts[0]) : puts[0][k].st = "STALL" /\ puts[0][k].conn = ldsc[0].conn
    /\ tmxr_tqln(ldsc[0]) = 0
    /\ ldsc[0].xmte = 1

(* ------------------------------------------------------------------ *)
(* C33: the greeting and the retained output (Spec).                   *)
(* ------------------------------------------------------------------ *)

\* C33: when the first client connects to a buffered line, no byte was ever
\* dropped from the ring and the ring has been sent, the client has
\* received, after the mantra, the complete greeting, then the bytes the
\* device wrote before the connect (the retained output), then the bytes it
\* wrote after it: the greeting overwrote and discarded none of them.
C33_GreetingBeforeRetained ==
    \A l \in Lines :
       LET lp == ldsc[l]
       IN  ( /\ lp.conn = 1
             /\ lp.txbfd # 0
             /\ lp.txdrp = 0
             /\ \A q \in 1..Len(puts[l]) : /\ puts[l][q].st = "OK"
                                           /\ puts[l][q].conn \in {0, lp.conn}
                                           /\ puts[l][q].master # 0
                                           /\ puts[l][q].c # TN_IAC
             /\ \E q \in 1..Len(puts[l]) : puts[l][q].conn = 0
             /\ tmxr_tqln(lp) = 0 )
           => AfterMantra(lp.conn) = msgbuf \o PutChars(puts[l])

(* ------------------------------------------------------------------ *)
(* C34: a producer that retries sim_putchar_s (SpecRetry).             *)
(* ------------------------------------------------------------------ *)

\* tmxr_poll_tx (&sim_con_tmxr) with a socket that takes r1 of the first
\* write and r2 of the second.
con_poll_tx_taking(m, r1, r2) ==
    IF m.lp.conn = 0 THEN m
    ELSE WithValue(LAMBDA tx : [m EXCEPT !.lp = tx.lp, !.wire[m.lp.conn] = @ \o tx.out],
                   PollTxLine(m.lp, r1, r2))

\* An end of sim_putchar_s that does not poll the transmitter.  (A variant
\* of sim_putchar_s_put, used to show that C34 depends on the poll.)
sim_putchar_s_nopoll(m1, c, r1, r2) ==
    IF m1.lp.xmte = 0
    THEN [m |-> m1, rv |-> Rv("STALL"), put |-> FALSE]
    ELSE WithValue(LAMBDA p : [m |-> [m1 EXCEPT !.lp = p.lp], rv |-> Rv(p.st), put |-> TRUE],
                   tmxr_putc_ln(m1.lp, c))

\* The end of sim_putchar_s: a stalled line gives SCPE_STALL, any other line
\* gets the character and gives the status of tmxr_putc_ln; then the
\* transmitter is polled.
sim_putchar_s_put(m1, c, r1, r2) ==
    IF m1.lp.xmte = 0
    THEN [m |-> con_poll_tx_taking(m1, r1, r2), rv |-> Rv("STALL"), put |-> FALSE]
    ELSE WithValue(LAMBDA p :
             [m   |-> con_poll_tx_taking([m1 EXCEPT !.lp = p.lp], r1, r2),
              rv  |-> Rv(p.st),
              put |-> TRUE],
             tmxr_putc_ln(m1.lp, c))

\* sim_putchar_s (c) with a Telnet master: no connection on an unbuffered
\* line is SCPE_LOST, no connection on a buffered line polls for one.
sim_putchar_s_telnet(m, b, c, acc, early, r1, r2) ==
    IF (m.lp.conn = 0) /\ (m.lp.txbfd = 0)
    THEN [m |-> m, rv |-> Rv("LOST"), put |-> FALSE]
    ELSE WithValue(LAMBDA m1 : sim_putchar_s_put(m1, c, r1, r2),
                   IF m.lp.conn = 0
                   THEN con_accepted(con_poll_conn(m, b, acc, early))
                   ELSE m)

\* The calls of sim_putchar_s so far, with the calls that stalled on a
\* character one after the other recorded once.
Recorded(h, e) ==
    IF (h # <<>>) /\ (h[Len(h)] = e) /\ (e.st = "STALL") THEN h ELSE Append(h, e)

\* Thread t calls sim_putchar_s (c) and runs it to its return (the lock is
\* free); the socket takes r1 and r2 of what is written to it.
PutCharS(t, c, acc, early, r1, r2) ==
    /\ con.pc[t] = "idle"
    /\ con.lock = 0
    /\ Accepts(acc)
    /\ LET simlog == logst.sim_log # NoFile
       IN  IF master = 0
           THEN /\ con' = [con EXCEPT !.arg[t] = c, !.rv[t] = Rv("OK"),
                                      !.slog = IF simlog THEN Append(@, c) ELSE @,
                                      !.osout = Append(@, c)]
                /\ puts' = [puts EXCEPT ![0] =
                               Recorded(@, [c |-> c, st |-> "OK", conn |-> ldsc[0].conn,
                                            master |-> master])]
                /\ UNCHANGED << lines, ldsc, master, buffered, lnorder, ret, nextsock,
                                sockopen, wire, inq, peerout, ntok, gets >>
           ELSE \E r \in {sim_putchar_s_telnet(ConMux, buffered, c, acc, early, r1, r2)} :
                    /\ ldsc' = [ldsc EXCEPT ![0] = r.m.lp]
                    /\ wire' = r.m.wire
                    /\ inq' = r.m.inq
                    /\ sockopen' = r.m.sockopen
                    /\ peerout' = r.m.peerout
                    /\ nextsock' = r.m.nextsock
                    /\ puts' = [puts EXCEPT ![0] =
                                   Recorded(@, [c |-> c, st |-> r.rv.st,
                                                conn |-> ldsc[0].conn, master |-> master])]
                    /\ con' = [con EXCEPT !.arg[t] = c, !.rv[t] = r.rv,
                                          !.slog = IF simlog /\ ~ldsc[0].txlog
                                                   THEN Append(@, c) ELSE @]
                    /\ UNCHANGED << lines, master, buffered, lnorder, ret, ntok, gets >>
    /\ UNCHANGED << logst, tt >>

\* The producer has been told to wait.
Stalled == con.rv[ConThread].st = "STALL"

\* The producer writes the characters 1, 2, 3, ..., one after the other.
NextChar == Len(SelectSeq(puts[0], LAMBDA e : e.st # "STALL")) + 1

\* The producer calls sim_putchar_s again with the character it was told to
\* wait with, and the socket takes something of what is written to it.
RetryAccepted ==
    /\ Stalled
    /\ \E r1, r2 \in {1, FullWrite} : PutCharS(ConThread, con.arg[ConThread], FALSE, <<>>, r1, r2)

\* The producer calls sim_putchar_s: with the character it was told to wait
\* with, or with its next character.
Produce ==
    \E r1, r2 \in WriteResults :
       IF Stalled
       THEN PutCharS(ConThread, con.arg[ConThread], FALSE, <<>>, r1, r2)
       ELSE NextChar <= FillPuts + 1 /\ PutCharS(ConThread, NextChar, FALSE, <<>>, r1, r2)

\* An unbuffered console on a Telnet port with one client, and a producer.
NextRetry ==
    \/ OpenMasterPort
    \/ \E r1, r2 \in WriteResults : nextsock = 1 /\ PollConn(r1, r2)
    \/ Produce
    \/ RetryAccepted

\* The producer retries after every stall, and the socket takes something of
\* what is written to it again and again.
SpecRetry == Init /\ [][NextRetry]_vars /\ WF_vars(RetryAccepted)

\* C34: on the unbuffered, connected console line a producer that calls
\* sim_putchar_s again after every SCPE_STALL gets SCPE_OK in the end, when
\* the socket goes on taking bytes: a connected line whose ring is empty has
\* its transmit enable on, since every sim_putchar_s polls the transmitter.
C34_RetryGetsOk ==
    /\ (Stalled /\ ldsc[0].conn # 0 /\ ldsc[0].txbfd = 0)
          ~> (con.rv[ConThread].st = "OK" /\ ldsc[0].conn # 0)
    /\ []((ldsc[0].conn # 0 /\ tmxr_tqln(ldsc[0]) = 0) => (ldsc[0].xmte = 1))

\* C34 witness: on the connected console line the producer's last call
\* gave SCPE_OK for the character that the call before it stalled on.
C34_Witness ==
    /\ ldsc[0].conn # 0
    /\ ldsc[0].txbfd = 0
    /\ con.rv[ConThread].st = "OK"
    /\ \E k \in 1..(Len(puts[0]) - 1) :
          /\ puts[0][k].st = "STALL"
          /\ puts[0][k + 1] = [puts[0][k] EXCEPT !.st = "OK"]
          /\ k + 1 = Len(puts[0])

(* ------------------------------------------------------------------ *)
(* C36, C37: reads and break flags (SpecRx).                           *)
(* ------------------------------------------------------------------ *)

\* The entries of line l that tmxr_getc_ln has not returned yet.
Pending(l) ==
    LET lp == ldsc[l]
    IN  [k \in 1..(lp.rxbpi - lp.rxbpr) |->
            [chr |-> lp.rxb[lp.rxbpr + k - 1],
             brk |-> IF lp.rbr[lp.rxbpr + k - 1] # 0 THEN 1 ELSE 0]]

\* C36: what the device gets of a stream, and the state the line is left
\* in, depend on the bytes of the stream only, not on the reads they came
\* in: tmxr_getc_ln returns the entries of the stream in order (characters
\* and break marks), and when the whole stream has been read and returned,
\* all of them, with the Telnet state and the pad removal of the stream.
C36_SplitIndependent ==
    \A l \in Lines :
       (ldsc[l].conn # 0) =>
          LET R == TelnetRun(peerout[ldsc[l].conn], TelnetStart, TRUE)
          IN  /\ IsPrefix(gets[l], R.out)
              /\ (inq[ldsc[l].conn] = <<>>) =>
                    /\ gets[l] \o Pending(l) = R.out
                    /\ ldsc[l].tsta = R.sta
                    /\ (ldsc[l].dstb # 0) = R.strip

\* C36 witness: the peer sent A, B, IAC BRK and the device has read nothing
\* yet, so the first read took A, B, IAC (a read into the empty buffer takes
\* no more) and a second read took the BRK: the buffer holds A, B and one
\* break entry.
C36_Witness ==
    /\ ldsc[0].conn # 0
    /\ peerout[ldsc[0].conn] = <<65, 66, TN_IAC, TN_BRK>>
    /\ inq[ldsc[0].conn] = <<>>
    /\ gets[0] = <<>>
    /\ ldsc[0].rxbpi = TMXR_MAXBUF - TMXR_GUARD
    /\ Pending(0) = << DataEntry(65), DataEntry(66), BreakEntry >>
    /\ ldsc[0].tsta = TNS_NORM

\* C37: an entry of line l, returned by tmxr_getc_ln or still in the
\* buffer, has the break flag exactly when it is the entry of an IAC BRK of
\* the stream; every other entry, a zero byte included, has none.
C37_BreakOnlyFromBrk ==
    \A l \in Lines :
       (ldsc[l].conn # 0) =>
          LET R == TelnetRun(ReadSoFar(l), TelnetStart, TRUE)
              E == gets[l] \o Pending(l)
          IN  /\ Len(E) = Len(R.out)
              /\ \A k \in 1..Len(E) : (E[k].brk = 1) <=> (R.out[k] = BreakEntry)

\* C37 witness: the peer sent IAC BRK, IAC WILL BIN, CR NUL and the device
\* has read a break, CR and a zero byte without the flag.
C37_Witness ==
    /\ Consumed(0)
    /\ peerout[ldsc[0].conn] = <<TN_IAC, TN_BRK, TN_IAC, TN_WILL, TN_BIN, TN_CR, TN_NUL>>
    /\ gets[0] = << BreakEntry, DataEntry(TN_CR), DataEntry(TN_NUL) >>

(* ------------------------------------------------------------------ *)
(* C40: doubled IACs on the wire (SpecUnbuf).                          *)
(* ------------------------------------------------------------------ *)

\* C40: when the ring of a connected line has been sent, every IAC the
\* client has received after the mantra is half of an IAC IAC pair: no
\* tmxr_putc_ln has left one half of a pair alone in the ring.
C40_PairsIntact ==
    \A l \in Lines :
       LET lp == ldsc[l]
       IN  ((lp.conn # 0) /\ (tmxr_tqln(lp) = 0)) =>
              NoCommands(SelectSeq(AfterMantra(lp.conn), LAMBDA b : b \notin GreetingBytes))

(* ------------------------------------------------------------------ *)
(* C39: the sinks of a log file (SpecSinks).                           *)
(* ------------------------------------------------------------------ *)

\* tmxr_set_nolog: with a line log, close it and clear lp->txlog.
tmxr_set_nolog(L) ==
    IF L.txlog = NoFile THEN L
    ELSE [sim_close_logfile(L, "line") EXCEPT !.txlog = NoFile]

\* tmxr_set_log: a line log is closed by tmxr_set_nolog, then the new one
\* is opened; the status is SCPE_OPENERR when lp->txlog is NULL afterwards.
tmxr_set_log(L, name, opened) ==
    LET r == sim_open_logfile(tmxr_set_nolog(L), "line", name, opened)
    IN  [L |-> r.L, st |-> IF r.L.txlog = NoFile THEN "OPENERR" ELSE "OK"]

\* tmxr_open_master with LOG=: the line log is closed and lp->txlog cleared,
\* then sim_open_logfile opens the new one.
tmxr_open_master_log(L, name, opened) ==
    sim_open_logfile([sim_close_logfile(L, "line") EXCEPT !.txlog = NoFile],
                     "line", name, opened)

\* A command on the log of the console line: the line descriptor of the
\* multiplexer has a log when lp->txlog is not NULL.
LineLogSet(L) ==
    /\ ldsc' = [ldsc EXCEPT ![0].txlog = (L.txlog # NoFile)]
    /\ UNCHANGED << lines, master, buffered, lnorder, ret, nextsock, sockopen,
                    wire, inq, peerout, ntok, puts, gets, con, tt >>

\* tmxr_set_log (uptr, val, cptr, desc)
TmxrSetLog(name, opened) ==
    /\ LogCommand(name)
    /\ LET r == tmxr_set_log(logst, name, opened)
       IN  /\ logst' = [r.L EXCEPT !.st = r.st]
           /\ LineLogSet(r.L)

\* tmxr_set_nolog (uptr, val, cptr, desc)
TmxrSetNolog ==
    /\ ~logst.uaf
    /\ logst' = [tmxr_set_nolog(logst) EXCEPT !.st = "OK"]
    /\ LineLogSet(tmxr_set_nolog(logst))

\* tmxr_open_master (mp, "LOG=<name>")
TmxrOpenMasterLog(name, opened) ==
    /\ LogCommand(name)
    /\ LET r == tmxr_open_master_log(logst, name, opened)
       IN  /\ logst' = [r.L EXCEPT !.st = r.st]
           /\ LineLogSet(r.L)

\* The log commands of the console and of its line.
NextSinks ==
    \/ \E name \in LogNames, opened \in BOOLEAN : SimSetLogon(name, opened)
    \/ SimSetLogoff
    \/ \E name \in LogNames, opened \in BOOLEAN : SimSetDebon(name, opened)
    \/ SimSetDeboff
    \/ \E name \in LogNames, opened \in BOOLEAN : TmxrSetLog(name, opened)
    \/ TmxrSetNolog
    \/ \E name \in LogNames, opened \in BOOLEAN : TmxrOpenMasterLog(name, opened)

SpecSinks == InitLogRef /\ [][NextSinks]_vars

\* The sinks that hold the stream of the file f.
Holders(f) == {h \in Sinks \cup LineSinks : Pf(logst, h) = f}

\* C39: over any sequence of log commands, of the console and of its line,
\* a file opened by name that a sink holds a stream to is not closed and
\* its reference is not freed, and the count of the reference is the number
\* of sinks that hold the stream: every release took one from it, once.
C39_NoSinkLosesFile ==
    \A f \in RefIds :
       (Holders(f) # {}) =>
          /\ f \notin logst.freed
          /\ logst.refcount[f] = Cardinality(Holders(f))

====
